---- MODULE Spec2Model ----
(***************************************************************************)
(* A state-machine model of rx::VertexArrayGL                              *)
(* (src/libANGLE/renderer/gl/VertexArrayGL.cpp): the engine that           *)
(* reconciles the front end's vertex array snapshot (mState) with the      *)
(* state applied to the GL device, streams client memory into GL buffers   *)
(* and applies the instanced-offset workaround.                            *)
(*                                                                         *)
(* Every operator that models a method threads a record                    *)
(*     s = [v |-> the VertexArrayGL object's fields,                       *)
(*          c |-> the sequence of device calls issued so far]              *)
(* and returns the record after the method.  The snapshot mState is read   *)
(* only; it is changed by the front-end actions alone.                     *)
(***************************************************************************)
EXTENDS Integers, Sequences, FiniteSets, TLC

VARIABLES
    mState,      \* the front end's snapshot: attribs, bindings, elementArrayBuffer
    vao,         \* the fields of the VertexArrayGL object
    context,     \* the device: FunctionsGL capability, FeaturesGL workaround flag,
                 \* what the driver will answer, whether the process still runs
    calls,       \* device / state-manager calls issued by the last operation
    op,          \* the last operation: its name, inputs and results
    changes,     \* number of front-end changes made so far
    maxRequired, \* largest requiredBufferSize computed by any draw so far
    device       \* the vertex array state of the GL device, as the calls left it

vars == <<mState, vao, context, calls, op, changes, maxRequired, device>>

----------------------------------------------------------------------------
(* Bounds of the model *)

MaxChanges == 2      \* front-end changes (snapshot fields, mask, view count) per run
MaxFirst == 1        \* largest `first` of a draw
UnmapScriptLen == 6  \* unmap results the driver has decided in advance

Slots == {0, 1}                 \* attribute / binding slots of the vertex array
NoBuffer == 0                   \* a null gl::Buffer (its GL name is 0)
Buffers == {1, 2}               \* GL names of the application's buffer objects
NullPointer == 0                \* attrib.pointer == nullptr
ClientPointers == {64}          \* non-null client memory pointers
Strides == {12, 16}          \* binding strides (16 is the default)
Offsets == {0, 8}               \* binding offsets
RelativeOffsets == {0, 4}       \* attribute relative offsets
Divisors == {0, 1, 2}           \* binding base divisors
NumViews == {1, 2}              \* multiview view counts
Firsts == 0 .. MaxFirst         \* `first` of a draw
Counts == {1, 2}                \* `count` of a draw (the front end drops empty draws)
InstanceCounts == {0, 3, 10}    \* instanceCount of a draw (0 = not instanced)
GenBufferNames == [array |-> 101, elementArray |-> 102]  \* names genBuffers returns
GenVertexArrayName == [id |-> 9]                        \* the `id` the constructor gets

(* angle::Format values: what the engine reads of a format *)
R32G32B32A32_FLOAT ==
    [vertexAttribType |-> "Float", channelCount |-> 4, isNorm |-> FALSE,
     isPureInt |-> FALSE, pixelBytes |-> 16]
R32_SINT ==
    [vertexAttribType |-> "Int", channelCount |-> 1, isNorm |-> FALSE,
     isPureInt |-> TRUE, pixelBytes |-> 4]
Formats == {R32G32B32A32_FLOAT, R32_SINT}

----------------------------------------------------------------------------
(* gl::VertexAttribute(bindingIndex) and gl::VertexBinding() as constructed *)

DefaultVertexAttribute(i) ==
    [enabled |-> FALSE, format |-> R32G32B32A32_FLOAT, relativeOffset |-> 0,
     bindingIndex |-> i, pointer |-> NullPointer]

DefaultVertexBinding ==
    [buffer |-> NoBuffer, stride |-> 16, offset |-> 0, divisor |-> 0]

DefaultVertexArrayState ==
    [attribs |-> [i \in Slots |-> DefaultVertexAttribute(i)],
     bindings |-> [i \in Slots |-> DefaultVertexBinding],
     elementArrayBuffer |-> NoBuffer]

(* VertexArrayGL::VertexArrayGL(state, id) *)
VertexArrayGL ==
    [mVertexArrayID |-> GenVertexArrayName.id,
     mAppliedNumViews |-> 1,
     mAppliedElementArrayBuffer |-> NoBuffer,
     mAppliedAttributes |-> [i \in Slots |-> DefaultVertexAttribute(i)],
     mAppliedBindings |-> [i \in Slots |-> DefaultVertexBinding],
     mStreamingElementArrayBufferSize |-> 0,
     mStreamingElementArrayBuffer |-> 0,
     mStreamingArrayBufferSize |-> 0,
     mStreamingArrayBuffer |-> 0,
     mProgramActiveAttribLocationsMask |-> {},
     mInstancedAttributesMask |-> {},
     mForcedStreamingAttributesForDrawArraysInstancedMask |-> {},
     mForcedStreamingAttributesFirstOffsets |-> [i \in Slots |-> 0]]

----------------------------------------------------------------------------
(* Helpers of the anonymous namespace *)

SameVertexAttribFormat(a, b) ==
    a.format = b.format /\ a.relativeOffset = b.relativeOffset

SameVertexBuffer(a, b) ==
    a.stride = b.stride /\ a.offset = b.offset /\ a.buffer = b.buffer

IsVertexAttribPointerSupported(attribIndex, attrib) ==
    attribIndex = attrib.bindingIndex /\ attrib.relativeOffset = 0

GetAdjustedDivisor(numViews, divisor) == numViews * divisor

(* BufferGL::getBufferID of a gl::Buffer: the model names a buffer by its id *)
GetBufferID(buffer) == buffer

(* one more device call in the log *)
Issue(s, call) == [s EXCEPT !.c = Append(s.c, call)]

----------------------------------------------------------------------------
(* Small accessors *)

getAppliedElementArrayBufferID(s) ==
    IF s.v.mAppliedElementArrayBuffer = NoBuffer
    THEN s.v.mStreamingElementArrayBuffer
    ELSE GetBufferID(s.v.mAppliedElementArrayBuffer)

supportVertexAttribBinding == context.vertexAttribBinding

(* StateManagerGL::bindVertexArray / bindBuffer: state-manager calls, which the
   manager forwards to the device only when the binding changes *)
BindVertexArray(s) ==
    Issue(s, [fn |-> "stateManager.bindVertexArray", vao |-> s.v.mVertexArrayID,
              elementArrayBuffer |-> getAppliedElementArrayBufferID(s)])

BindBuffer(s, target, id) ==
    Issue(s, [fn |-> "stateManager.bindBuffer", target |-> target, buffer |-> id])

----------------------------------------------------------------------------
(* State diffing: one operator per update method *)

(* updateElementArrayBufferBinding, binding the snapshot's buffer only when the
   applied state has none *)
updateElementArrayBufferBinding_OnFirstBindingOnly(s) ==
    LET elementArrayBuffer == mState.elementArrayBuffer IN
    IF elementArrayBuffer # NoBuffer
       /\ s.v.mAppliedElementArrayBuffer = NoBuffer
    THEN [BindBuffer(s, "ElementArray", GetBufferID(elementArrayBuffer))
            EXCEPT !.v.mAppliedElementArrayBuffer = elementArrayBuffer]
    ELSE s

updateElementArrayBufferBinding(s) ==
    LET elementArrayBuffer == mState.elementArrayBuffer IN
    IF elementArrayBuffer # NoBuffer
       /\ elementArrayBuffer # s.v.mAppliedElementArrayBuffer
    THEN [BindBuffer(s, "ElementArray", GetBufferID(elementArrayBuffer))
            EXCEPT !.v.mAppliedElementArrayBuffer = elementArrayBuffer]
    ELSE s

(* updateAttribEnabled, taking the snapshot's flag without the program-active mask *)
updateAttribEnabled_IgnoringActiveMask(s, attribIndex) ==
    LET enabled == mState.attribs[attribIndex].enabled
    IN
    IF s.v.mAppliedAttributes[attribIndex].enabled = enabled
    THEN s
    ELSE [Issue(s, [fn |-> IF enabled THEN "enableVertexAttribArray"
                                      ELSE "disableVertexAttribArray",
                    index |-> attribIndex])
            EXCEPT !.v.mAppliedAttributes[attribIndex].enabled = enabled]

updateAttribEnabled(s, attribIndex) ==
    LET enabled == mState.attribs[attribIndex].enabled
                   /\ attribIndex \in s.v.mProgramActiveAttribLocationsMask
    IN
    IF s.v.mAppliedAttributes[attribIndex].enabled = enabled
    THEN s
    ELSE [Issue(s, [fn |-> IF enabled THEN "enableVertexAttribArray"
                                      ELSE "disableVertexAttribArray",
                    index |-> attribIndex])
            EXCEPT !.v.mAppliedAttributes[attribIndex].enabled = enabled]

callVertexAttribPointer(s, attribIndex, attrib, stride, offset) ==
    Issue(s, [fn |-> IF attrib.format.isPureInt THEN "vertexAttribIPointer"
                                                ELSE "vertexAttribPointer",
              index |-> attribIndex, format |-> attrib.format,
              stride |-> stride, pointer |-> offset])

(* updateAttribPointer, returning at once when the binding has no buffer *)
updateAttribPointer_KeepingBufferWhenNull(s, attribIndex) ==
    LET attrib == mState.attribs[attribIndex]
        binding == mState.bindings[attribIndex]
        arrayBuffer == binding.buffer
    IN
    IF arrayBuffer = NoBuffer
    THEN s
    ELSE IF SameVertexAttribFormat(s.v.mAppliedAttributes[attribIndex], attrib)
            /\ s.v.mAppliedAttributes[attribIndex].bindingIndex = attrib.bindingIndex
            /\ SameVertexBuffer(s.v.mAppliedBindings[attribIndex], binding)
    THEN s
    ELSE LET s1 == BindBuffer(s, "Array", GetBufferID(arrayBuffer))
             s2 == callVertexAttribPointer(s1, attribIndex, attrib,
                                           binding.stride, binding.offset)
         IN [s2 EXCEPT
               !.v.mAppliedAttributes[attribIndex].format = attrib.format,
               !.v.mAppliedAttributes[attribIndex].relativeOffset = 0,
               !.v.mAppliedAttributes[attribIndex].bindingIndex = attribIndex,
               !.v.mAppliedBindings[attribIndex].stride = binding.stride,
               !.v.mAppliedBindings[attribIndex].offset = binding.offset,
               !.v.mAppliedBindings[attribIndex].buffer = binding.buffer]

(* updateAttribPointer, leaving the applied stride as it was *)
updateAttribPointer_KeepingAppliedStride(s, attribIndex) ==
    LET attrib == mState.attribs[attribIndex]
        binding == mState.bindings[attribIndex]
        arrayBuffer == binding.buffer
    IN
    IF arrayBuffer = NoBuffer
    THEN [s EXCEPT !.v.mAppliedBindings[attribIndex].buffer = NoBuffer]
    ELSE IF SameVertexAttribFormat(s.v.mAppliedAttributes[attribIndex], attrib)
            /\ s.v.mAppliedAttributes[attribIndex].bindingIndex = attrib.bindingIndex
            /\ SameVertexBuffer(s.v.mAppliedBindings[attribIndex], binding)
    THEN s
    ELSE LET s1 == BindBuffer(s, "Array", GetBufferID(arrayBuffer))
             s2 == callVertexAttribPointer(s1, attribIndex, attrib,
                                           binding.stride, binding.offset)
         IN [s2 EXCEPT
               !.v.mAppliedAttributes[attribIndex].format = attrib.format,
               !.v.mAppliedAttributes[attribIndex].relativeOffset = 0,
               !.v.mAppliedAttributes[attribIndex].bindingIndex = attribIndex,
               !.v.mAppliedBindings[attribIndex].offset = binding.offset,
               !.v.mAppliedBindings[attribIndex].buffer = binding.buffer]

updateAttribPointer(s, attribIndex) ==
    LET attrib == mState.attribs[attribIndex]
        \* the binding indexed attribIndex, not attrib.bindingIndex
        binding == mState.bindings[attribIndex]
        arrayBuffer == binding.buffer
    IN
    IF arrayBuffer = NoBuffer
    THEN [s EXCEPT !.v.mAppliedBindings[attribIndex].buffer = NoBuffer]
    ELSE IF SameVertexAttribFormat(s.v.mAppliedAttributes[attribIndex], attrib)
            /\ s.v.mAppliedAttributes[attribIndex].bindingIndex = attrib.bindingIndex
            /\ SameVertexBuffer(s.v.mAppliedBindings[attribIndex], binding)
    THEN s
    ELSE LET s1 == BindBuffer(s, "Array", GetBufferID(arrayBuffer))
             s2 == callVertexAttribPointer(s1, attribIndex, attrib,
                                           binding.stride, binding.offset)
         IN [s2 EXCEPT
               !.v.mAppliedAttributes[attribIndex].format = attrib.format,
               !.v.mAppliedAttributes[attribIndex].relativeOffset = 0,
               !.v.mAppliedAttributes[attribIndex].bindingIndex = attribIndex,
               !.v.mAppliedBindings[attribIndex].stride = binding.stride,
               !.v.mAppliedBindings[attribIndex].offset = binding.offset,
               !.v.mAppliedBindings[attribIndex].buffer = binding.buffer]

(* updateAttribFormat, recording the format but not the relative offset *)
updateAttribFormat_KeepingAppliedRelativeOffset(s, attribIndex) ==
    LET attrib == mState.attribs[attribIndex] IN
    IF SameVertexAttribFormat(s.v.mAppliedAttributes[attribIndex], attrib)
    THEN s
    ELSE [Issue(s, [fn |-> IF attrib.format.isPureInt THEN "vertexAttribIFormat"
                                                      ELSE "vertexAttribFormat",
                    index |-> attribIndex, format |-> attrib.format,
                    relativeOffset |-> attrib.relativeOffset])
            EXCEPT !.v.mAppliedAttributes[attribIndex].format = attrib.format]

updateAttribFormat(s, attribIndex) ==
    LET attrib == mState.attribs[attribIndex] IN
    IF SameVertexAttribFormat(s.v.mAppliedAttributes[attribIndex], attrib)
    THEN s
    ELSE [Issue(s, [fn |-> IF attrib.format.isPureInt THEN "vertexAttribIFormat"
                                                      ELSE "vertexAttribFormat",
                    index |-> attribIndex, format |-> attrib.format,
                    relativeOffset |-> attrib.relativeOffset])
            EXCEPT !.v.mAppliedAttributes[attribIndex].format = attrib.format,
                   !.v.mAppliedAttributes[attribIndex].relativeOffset =
                        attrib.relativeOffset]

updateAttribBinding(s, attribIndex) ==
    LET bindingIndex == mState.attribs[attribIndex].bindingIndex IN
    IF s.v.mAppliedAttributes[attribIndex].bindingIndex = bindingIndex
    THEN s
    ELSE [Issue(s, [fn |-> "vertexAttribBinding", index |-> attribIndex,
                    bindingIndex |-> bindingIndex])
            EXCEPT !.v.mAppliedAttributes[attribIndex].bindingIndex = bindingIndex]

updateBindingBuffer(s, bindingIndex) ==
    LET binding == mState.bindings[bindingIndex] IN
    IF SameVertexBuffer(s.v.mAppliedBindings[bindingIndex], binding)
    THEN s
    ELSE LET bufferId == IF binding.buffer # NoBuffer
                         THEN GetBufferID(binding.buffer) ELSE 0
         IN [Issue(s, [fn |-> "bindVertexBuffer", index |-> bindingIndex,
                       buffer |-> bufferId, offset |-> binding.offset,
                       stride |-> binding.stride])
               EXCEPT !.v.mAppliedBindings[bindingIndex].stride = binding.stride,
                      !.v.mAppliedBindings[bindingIndex].offset = binding.offset,
                      !.v.mAppliedBindings[bindingIndex].buffer = binding.buffer]

(* updateBindingDivisor, calling the binding's entry point on every device *)
updateBindingDivisor_WithoutCapabilityTest(s, bindingIndex) ==
    LET adjustedDivisor == GetAdjustedDivisor(s.v.mAppliedNumViews,
                                              mState.bindings[bindingIndex].divisor)
    IN
    IF s.v.mAppliedBindings[bindingIndex].divisor = adjustedDivisor
    THEN s
    ELSE [Issue(s, [fn |-> "vertexBindingDivisor",
                    index |-> bindingIndex, divisor |-> adjustedDivisor])
            EXCEPT !.v.mAppliedBindings[bindingIndex].divisor = adjustedDivisor,
                   !.v.mInstancedAttributesMask =
                        IF adjustedDivisor > 0
                        THEN @ \cup {bindingIndex}
                        ELSE @ \ {bindingIndex}]

(* updateBindingDivisor, applying the base divisor without the view count *)
updateBindingDivisor_WithBaseDivisor(s, bindingIndex) ==
    LET adjustedDivisor == mState.bindings[bindingIndex].divisor
    IN
    IF s.v.mAppliedBindings[bindingIndex].divisor = adjustedDivisor
    THEN s
    ELSE [Issue(s, [fn |-> IF supportVertexAttribBinding
                           THEN "vertexBindingDivisor" ELSE "vertexAttribDivisor",
                    index |-> bindingIndex, divisor |-> adjustedDivisor])
            EXCEPT !.v.mAppliedBindings[bindingIndex].divisor = adjustedDivisor,
                   !.v.mInstancedAttributesMask =
                        IF adjustedDivisor > 0
                        THEN @ \cup {bindingIndex}
                        ELSE @ \ {bindingIndex}]

(* updateBindingDivisor, never taking a binding out of the instanced mask *)
updateBindingDivisor_NeverLeavingMask(s, bindingIndex) ==
    LET adjustedDivisor == GetAdjustedDivisor(s.v.mAppliedNumViews,
                                              mState.bindings[bindingIndex].divisor)
    IN
    IF s.v.mAppliedBindings[bindingIndex].divisor = adjustedDivisor
    THEN s
    ELSE [Issue(s, [fn |-> IF supportVertexAttribBinding
                           THEN "vertexBindingDivisor" ELSE "vertexAttribDivisor",
                    index |-> bindingIndex, divisor |-> adjustedDivisor])
            EXCEPT !.v.mAppliedBindings[bindingIndex].divisor = adjustedDivisor,
                   !.v.mInstancedAttributesMask =
                        IF adjustedDivisor > 0
                        THEN @ \cup {bindingIndex}
                        ELSE @]

updateBindingDivisor(s, bindingIndex) ==
    LET adjustedDivisor == GetAdjustedDivisor(s.v.mAppliedNumViews,
                                              mState.bindings[bindingIndex].divisor)
    IN
    IF s.v.mAppliedBindings[bindingIndex].divisor = adjustedDivisor
    THEN s
    ELSE [Issue(s, [fn |-> IF supportVertexAttribBinding
                           THEN "vertexBindingDivisor" ELSE "vertexAttribDivisor",
                    index |-> bindingIndex, divisor |-> adjustedDivisor])
            EXCEPT !.v.mAppliedBindings[bindingIndex].divisor = adjustedDivisor,
                   !.v.mInstancedAttributesMask =
                        IF adjustedDivisor > 0
                        THEN @ \cup {bindingIndex}
                        ELSE @ \ {bindingIndex}]

----------------------------------------------------------------------------
(* Dirty bits.  A set bit is visited in the numeric order of its enum:       *)
(* gl::VertexArray::DirtyAttribBitType and DirtyBindingBitType               *)

DirtyAttribBitType ==
    <<"DIRTY_ATTRIB_ENABLED", "DIRTY_ATTRIB_POINTER", "DIRTY_ATTRIB_FORMAT",
      "DIRTY_ATTRIB_BINDING", "DIRTY_ATTRIB_POINTER_BUFFER">>

DirtyBindingBitType == <<"DIRTY_BINDING_BUFFER", "DIRTY_BINDING_DIVISOR">>

Range(seq) == {seq[k] : k \in 1 .. Len(seq)}

(* the bits whose handlers assert supportVertexAttribBinding(context) *)
BindingOnlyAttribBits == {"DIRTY_ATTRIB_FORMAT", "DIRTY_ATTRIB_BINDING"}
BindingOnlyBindingBits == {"DIRTY_BINDING_BUFFER"}

(* syncDirtyAttrib, taking the pointer bits for format bits *)
syncDirtyAttribBit_PointerAsFormat(s, attribIndex, dirtyBit) ==
    CASE dirtyBit = "DIRTY_ATTRIB_ENABLED" -> updateAttribEnabled(s, attribIndex)
      [] dirtyBit \in {"DIRTY_ATTRIB_POINTER_BUFFER", "DIRTY_ATTRIB_POINTER"} ->
             updateAttribFormat(s, attribIndex)
      [] dirtyBit = "DIRTY_ATTRIB_FORMAT" -> updateAttribFormat(s, attribIndex)
      [] dirtyBit = "DIRTY_ATTRIB_BINDING" -> updateAttribBinding(s, attribIndex)

syncDirtyAttribBit(s, attribIndex, dirtyBit) ==
    CASE dirtyBit = "DIRTY_ATTRIB_ENABLED" -> updateAttribEnabled(s, attribIndex)
      [] dirtyBit \in {"DIRTY_ATTRIB_POINTER_BUFFER", "DIRTY_ATTRIB_POINTER"} ->
             updateAttribPointer(s, attribIndex)
      [] dirtyBit = "DIRTY_ATTRIB_FORMAT" -> updateAttribFormat(s, attribIndex)
      [] dirtyBit = "DIRTY_ATTRIB_BINDING" -> updateAttribBinding(s, attribIndex)

RECURSIVE syncDirtyAttribFrom(_, _, _, _)
syncDirtyAttribFrom(s, attribIndex, dirtyAttribBits, k) ==
    IF k > Len(DirtyAttribBitType) THEN s
    ELSE syncDirtyAttribFrom(
             IF DirtyAttribBitType[k] \in dirtyAttribBits
             THEN syncDirtyAttribBit(s, attribIndex, DirtyAttribBitType[k])
             ELSE s,
             attribIndex, dirtyAttribBits, k + 1)

syncDirtyAttrib(s, attribIndex, dirtyAttribBits) ==
    syncDirtyAttribFrom(s, attribIndex, dirtyAttribBits, 1)

syncDirtyBindingBit(s, bindingIndex, dirtyBit) ==
    CASE dirtyBit = "DIRTY_BINDING_BUFFER" -> updateBindingBuffer(s, bindingIndex)
      [] dirtyBit = "DIRTY_BINDING_DIVISOR" -> updateBindingDivisor(s, bindingIndex)

RECURSIVE syncDirtyBindingFrom(_, _, _, _)
syncDirtyBindingFrom(s, bindingIndex, dirtyBindingBits, k) ==
    IF k > Len(DirtyBindingBitType) THEN s
    ELSE syncDirtyBindingFrom(
             IF DirtyBindingBitType[k] \in dirtyBindingBits
             THEN syncDirtyBindingBit(s, bindingIndex, DirtyBindingBitType[k])
             ELSE s,
             bindingIndex, dirtyBindingBits, k + 1)

syncDirtyBinding(s, bindingIndex, dirtyBindingBits) ==
    syncDirtyBindingFrom(s, bindingIndex, dirtyBindingBits, 1)

(* The dirty bits handed to syncState:
     elementArrayBuffer, elementArrayBufferData : DIRTY_BIT_ELEMENT_ARRAY_BUFFER(_DATA)
     attribBits[i]  : the attribBits entry of slot i; DIRTY_BIT_ATTRIB_0 + i is set iff it is not empty
     bindingBits[i] : the bindingBits entry of slot i, under DIRTY_BIT_BINDING_0 + i
     bufferData     : the slots whose DIRTY_BIT_BUFFER_DATA_0 + i is set *)
NoDirtyBits ==
    [elementArrayBuffer |-> FALSE, elementArrayBufferData |-> FALSE,
     attribBits |-> [i \in Slots |-> {}], bindingBits |-> [i \in Slots |-> {}],
     bufferData |-> {}]

RECURSIVE syncAttribsFrom(_, _, _)
syncAttribsFrom(s, dirty, i) ==
    IF i \notin Slots THEN s
    ELSE syncAttribsFrom(
             IF dirty.attribBits[i] # {}
             THEN syncDirtyAttrib(s, i, dirty.attribBits[i]) ELSE s,
             dirty, i + 1)

RECURSIVE syncBindingsFrom(_, _, _)
syncBindingsFrom(s, dirty, i) ==
    IF i \notin Slots THEN s
    ELSE syncBindingsFrom(syncDirtyBinding(s, i, dirty.bindingBits[i]), dirty, i + 1)

syncState(s, dirty) ==
    LET s0 == BindVertexArray(s)
        s1 == IF dirty.elementArrayBuffer
              THEN updateElementArrayBufferBinding(s0) ELSE s0
        s2 == syncAttribsFrom(s1, dirty, 0)
    IN syncBindingsFrom(s2, dirty, 0)

RECURSIVE applyDivisorsFrom(_, _)
applyDivisorsFrom(s, index) ==
    IF index \notin Slots THEN s
    ELSE applyDivisorsFrom(updateBindingDivisor(s, index), index + 1)

(* applyNumViewsToDivisor, recomputing the first binding only *)
applyNumViewsToDivisor_FirstBindingOnly(s, numViews) ==
    IF numViews # s.v.mAppliedNumViews
    THEN updateBindingDivisor(
             [BindVertexArray(s) EXCEPT !.v.mAppliedNumViews = numViews], 0)
    ELSE s

applyNumViewsToDivisor(s, numViews) ==
    IF numViews # s.v.mAppliedNumViews
    THEN applyDivisorsFrom(
             [BindVertexArray(s) EXCEPT !.v.mAppliedNumViews = numViews], 0)
    ELSE s

RECURSIVE updateEnabledFrom(_, _, _)
updateEnabledFrom(s, updateMask, attribIndex) ==
    IF attribIndex \notin Slots THEN s
    ELSE updateEnabledFrom(
             IF attribIndex \in updateMask
             THEN updateAttribEnabled(s, attribIndex) ELSE s,
             updateMask, attribIndex + 1)

(* applyActiveAttribLocationsMask, storing the mask without re-evaluating the
   attributes whose bit changed *)
applyActiveAttribLocationsMask_WithoutReevaluation(s, activeMask) ==
    LET updateMask == (s.v.mProgramActiveAttribLocationsMask \ activeMask)
                      \cup (activeMask \ s.v.mProgramActiveAttribLocationsMask)
    IN
    IF updateMask = {} THEN s
    ELSE [s EXCEPT !.v.mProgramActiveAttribLocationsMask = activeMask]

applyActiveAttribLocationsMask(s, activeMask) ==
    LET updateMask == (s.v.mProgramActiveAttribLocationsMask \ activeMask)
                      \cup (activeMask \ s.v.mProgramActiveAttribLocationsMask)
    IN
    IF updateMask = {} THEN s
    ELSE updateEnabledFrom(
             [s EXCEPT !.v.mProgramActiveAttribLocationsMask = activeMask],
             updateMask, 0)

----------------------------------------------------------------------------
(* Streaming of client-side vertex data.

   Helpers of libANGLE the engine calls (VertexAttribute.inl, angletypes.h,
   State.cpp): *)

ComputeVertexAttributeTypeSize(attrib) == attrib.format.pixelBytes

ComputeVertexAttributeStride(attrib, binding) ==
    IF attrib.enabled THEN binding.stride ELSE 16

ComputeVertexBindingElementCount(divisor, drawCount, instanceCount) ==
    IF instanceCount > 0 /\ divisor > 0
    THEN (instanceCount + divisor - 1) \div divisor
    ELSE drawCount

\* IndexRange::vertexCount
vertexCount(indexRange) == indexRange.end - indexRange.start + 1

(* StateCache::getActiveClientAttribsMask: the enabled attributes the program
   reads whose binding has no buffer.  The state manager applies the program's
   mask to the vertex array before a draw, so the mask of the program is
   mProgramActiveAttribLocationsMask. *)
getActiveClientAttribsMask(v) ==
    {i \in Slots :
        /\ mState.attribs[i].enabled
        /\ i \in v.mProgramActiveAttribLocationsMask
        /\ mState.bindings[mState.attribs[i].bindingIndex].buffer = NoBuffer}

(* the element count of one attribute, from the base divisor of its binding *)
StreamedElementCount_IgnoringViews(v, idx, instanceCount, indexRange) ==
    LET attrib == mState.attribs[idx]
        binding == mState.bindings[attrib.bindingIndex]
    IN ComputeVertexBindingElementCount(binding.divisor, vertexCount(indexRange),
                                        instanceCount)

(* the element count of one attribute, as computeStreamingAttributeSizes and
   streamAttributes both compute it *)
StreamedElementCount(v, idx, instanceCount, indexRange) ==
    LET attrib == mState.attribs[idx]
        binding == mState.bindings[attrib.bindingIndex]
        adjustedDivisor == GetAdjustedDivisor(v.mAppliedNumViews, binding.divisor)
    IN ComputeVertexBindingElementCount(adjustedDivisor, vertexCount(indexRange),
                                        instanceCount)

Max(a, b) == IF a >= b THEN a ELSE b

RECURSIVE computeStreamingAttributeSizesFrom(_, _, _, _, _, _)
computeStreamingAttributeSizesFrom(v, attribsToStream, instanceCount, indexRange, out, idx) ==
    IF idx \notin Slots THEN out
    ELSE computeStreamingAttributeSizesFrom(
             v, attribsToStream, instanceCount, indexRange,
             IF idx \in attribsToStream
             THEN LET typeSize == ComputeVertexAttributeTypeSize(mState.attribs[idx]) IN
                  [streamingDataSize |->
                       out.streamingDataSize
                       + typeSize * StreamedElementCount(v, idx, instanceCount, indexRange),
                   maxAttributeDataSize |-> Max(out.maxAttributeDataSize, typeSize)]
             ELSE out,
             idx + 1)

computeStreamingAttributeSizes(v, attribsToStream, instanceCount, indexRange) ==
    computeStreamingAttributeSizesFrom(
        v, attribsToStream, instanceCount, indexRange,
        [streamingDataSize |-> 0, maxAttributeDataSize |-> 0], 0)

(* What the driver answers during one draw:
     unmapResults       : the results of the successive unmaps of the streaming
                          buffer (GL_TRUE once the sequence is used up)
     glErrorChecked     : ANGLE_GL_TRY finds a GL error (only a build that
                          checks GL errors can)
     getIndexRangeFails : Buffer::getIndexRange returns an error
     nullBuffer         : what dereferencing a null buffer does *)
UnmapResultAt(driver, k) ==
    IF k <= Len(driver.unmapResults) THEN driver.unmapResults[k] ELSE TRUE

(* ASSERT(IsVertexAttribPointerSupported(idx, attrib)): a build without
   assertions goes on; the failure is recorded *)
EvaluateIsVertexAttribPointerSupported(t, idx, attrib) ==
    IF IsVertexAttribPointerSupported(idx, attrib) THEN t
    ELSE [t EXCEPT !.asserts = @ \cup {"IsVertexAttribPointerSupported(idx, attrib)"}]

(* the streamed attribute tracked as still reading the buffer it read before *)
trackStreamedAttribute_KeepingAppliedBuffer(t, idx, attrib, destStride, vertexStartOffset) ==
    [t EXCEPT
       !.v.mAppliedAttributes[idx].format = attrib.format,
       !.v.mAppliedAttributes[idx].relativeOffset = 0,
       !.v.mAppliedAttributes[idx].bindingIndex = idx,
       !.v.mAppliedBindings[idx].stride = destStride,
       !.v.mAppliedBindings[idx].offset = vertexStartOffset]

(* "Update the state to track the streamed attribute" *)
trackStreamedAttribute(t, idx, attrib, destStride, vertexStartOffset) ==
    [t EXCEPT
       !.v.mAppliedAttributes[idx].format = attrib.format,
       !.v.mAppliedAttributes[idx].relativeOffset = 0,
       !.v.mAppliedAttributes[idx].bindingIndex = idx,
       !.v.mAppliedBindings[idx].stride = destStride,
       !.v.mAppliedBindings[idx].offset = vertexStartOffset,
       !.v.mAppliedBindings[idx].buffer = NoBuffer]

(* streamAttribute, stepping back from the running offset by the stride of the
   source *)
streamAttribute_OffsetBySourceStride(t0, idx, instanceCount, indexRange, maxAttributeDataSize, applyExtraOffsetWorkaroundForInstancedAttributes, driver) ==
    LET attrib == mState.attribs[idx]
        t == EvaluateIsVertexAttribPointerSupported(t0, idx, attrib)
        binding == mState.bindings[attrib.bindingIndex]
        adjustedDivisor == GetAdjustedDivisor(t.v.mAppliedNumViews, binding.divisor)
        originalStreamedVertexCount ==
            StreamedElementCount(t.v, idx, instanceCount, indexRange)
        sourceStride == ComputeVertexAttributeStride(attrib, binding)
        destStride == ComputeVertexAttributeTypeSize(attrib)
        firstIndex ==
            IF adjustedDivisor = 0 \/ applyExtraOffsetWorkaroundForInstancedAttributes
            THEN indexRange.start ELSE 0
        batchMemcpySize == destStride * originalStreamedVertexCount
        workaround ==
            applyExtraOffsetWorkaroundForInstancedAttributes /\ adjustedDivisor > 0
        streamedVertexCount ==
            IF workaround
            THEN (instanceCount + indexRange.start + adjustedDivisor - 1)
                     \div adjustedDivisor
            ELSE originalStreamedVertexCount
        copySize == sourceStride * originalStreamedVertexCount
        needsUnmapAndRebindStreamingAttributeBuffer ==
            workaround /\ binding.buffer # NoBuffer
        batchMemcpyInputOffset == IF workaround THEN 0 ELSE sourceStride * firstIndex
        firstIndexForSeparateCopy == IF workaround THEN 0 ELSE firstIndex
        t1 == IF needsUnmapAndRebindStreamingAttributeBuffer
              THEN Issue(BindBuffer(t, "Array", GetBufferID(binding.buffer)),
                         [fn |-> "mapBufferRange", target |-> "GL_ARRAY_BUFFER",
                          offset |-> binding.offset, length |-> copySize,
                          access |-> "GL_MAP_READ_BIT"])
              ELSE t
        t2 == Issue(t1,
                    IF destStride = sourceStride
                    THEN [fn |-> "memcpy", index |-> idx, dst |-> t.curBufferOffset,
                          size |-> batchMemcpySize,
                          src |-> batchMemcpyInputOffset,
                          read |-> batchMemcpySize]
                    ELSE [fn |-> "memcpy", index |-> idx, dst |-> t.curBufferOffset,
                          size |-> destStride * streamedVertexCount,
                          src |-> sourceStride * firstIndexForSeparateCopy,
                          read |-> IF streamedVertexCount = 0 THEN 0
                                   ELSE sourceStride * (streamedVertexCount - 1)
                                        + destStride])
        t3 == IF needsUnmapAndRebindStreamingAttributeBuffer
              THEN Issue(t2, [fn |-> "unmapBuffer", target |-> "GL_ARRAY_BUFFER",
                              mapped |-> "read"])
              ELSE t2
        t4 == IF needsUnmapAndRebindStreamingAttributeBuffer
              THEN BindBuffer(t3, "Array", t.v.mStreamingArrayBuffer)
              ELSE t3
        vertexStartOffset == t.curBufferOffset - firstIndex * sourceStride
        t5 == callVertexAttribPointer(t4, idx, attrib, destStride, vertexStartOffset)
    IN
    IF workaround /\ binding.buffer = NoBuffer /\ attrib.pointer = NullPointer
    THEN t
    ELSE IF needsUnmapAndRebindStreamingAttributeBuffer /\ driver.glErrorChecked
    THEN [t3 EXCEPT !.error = TRUE]
    ELSE [trackStreamedAttribute(t5, idx, attrib, destStride, vertexStartOffset)
             EXCEPT
            !.curBufferOffset = t.curBufferOffset
                                + destStride * streamedVertexCount
                                + maxAttributeDataSize * indexRange.start]

(* One attribute of one fill cycle.  t carries the vertex array, the call log,
   curBufferOffset and whether ANGLE_GL_TRY returned.  The copies are logged
   as "memcpy" with the bytes they write, [dst, dst + size), into the mapped
   streaming buffer. *)
streamAttribute(t0, idx, instanceCount, indexRange, maxAttributeDataSize, applyExtraOffsetWorkaroundForInstancedAttributes, driver) ==
    LET attrib == mState.attribs[idx]
        t == EvaluateIsVertexAttribPointerSupported(t0, idx, attrib)
        binding == mState.bindings[attrib.bindingIndex]
        adjustedDivisor == GetAdjustedDivisor(t.v.mAppliedNumViews, binding.divisor)
        originalStreamedVertexCount ==
            StreamedElementCount(t.v, idx, instanceCount, indexRange)
        sourceStride == ComputeVertexAttributeStride(attrib, binding)
        destStride == ComputeVertexAttributeTypeSize(attrib)
        firstIndex ==
            IF adjustedDivisor = 0 \/ applyExtraOffsetWorkaroundForInstancedAttributes
            THEN indexRange.start ELSE 0
        batchMemcpySize == destStride * originalStreamedVertexCount
        workaround ==
            applyExtraOffsetWorkaroundForInstancedAttributes /\ adjustedDivisor > 0
        streamedVertexCount ==
            IF workaround
            THEN (instanceCount + indexRange.start + adjustedDivisor - 1)
                     \div adjustedDivisor
            ELSE originalStreamedVertexCount
        copySize == sourceStride * originalStreamedVertexCount
        needsUnmapAndRebindStreamingAttributeBuffer ==
            workaround /\ binding.buffer # NoBuffer
        batchMemcpyInputOffset == IF workaround THEN 0 ELSE sourceStride * firstIndex
        firstIndexForSeparateCopy == IF workaround THEN 0 ELSE firstIndex
        t1 == IF needsUnmapAndRebindStreamingAttributeBuffer
              THEN Issue(BindBuffer(t, "Array", GetBufferID(binding.buffer)),
                         [fn |-> "mapBufferRange", target |-> "GL_ARRAY_BUFFER",
                          offset |-> binding.offset, length |-> copySize,
                          access |-> "GL_MAP_READ_BIT"])
              ELSE t
        t2 == Issue(t1,
                    IF destStride = sourceStride
                    THEN [fn |-> "memcpy", index |-> idx, dst |-> t.curBufferOffset,
                          size |-> batchMemcpySize,
                          src |-> batchMemcpyInputOffset,
                          read |-> batchMemcpySize]
                    ELSE [fn |-> "memcpy", index |-> idx, dst |-> t.curBufferOffset,
                          size |-> destStride * streamedVertexCount,
                          src |-> sourceStride * firstIndexForSeparateCopy,
                          read |-> IF streamedVertexCount = 0 THEN 0
                                   ELSE sourceStride * (streamedVertexCount - 1)
                                        + destStride])
        t3 == IF needsUnmapAndRebindStreamingAttributeBuffer
              THEN Issue(t2, [fn |-> "unmapBuffer", target |-> "GL_ARRAY_BUFFER",
                              mapped |-> "read"])
              ELSE t2
        t4 == IF needsUnmapAndRebindStreamingAttributeBuffer
              THEN BindBuffer(t3, "Array", t.v.mStreamingArrayBuffer)
              ELSE t3
        vertexStartOffset == t.curBufferOffset - firstIndex * destStride
        t5 == callVertexAttribPointer(t4, idx, attrib, destStride, vertexStartOffset)
    IN
    IF workaround /\ binding.buffer = NoBuffer /\ attrib.pointer = NullPointer
    THEN t
    ELSE IF needsUnmapAndRebindStreamingAttributeBuffer /\ driver.glErrorChecked
    THEN [t3 EXCEPT !.error = TRUE]
    ELSE [trackStreamedAttribute(t5, idx, attrib, destStride, vertexStartOffset)
             EXCEPT
            !.curBufferOffset = t.curBufferOffset
                                + destStride * streamedVertexCount
                                + maxAttributeDataSize * indexRange.start]

RECURSIVE streamAttribsFrom(_, _, _, _, _, _, _, _)
streamAttribsFrom(t, attribsToStream, instanceCount, indexRange, maxAttributeDataSize, applyExtraOffsetWorkaroundForInstancedAttributes, driver, idx) ==
    IF idx \notin Slots \/ t.error THEN t
    ELSE streamAttribsFrom(
             IF idx \in attribsToStream
             THEN streamAttribute(t, idx, instanceCount, indexRange,
                                  maxAttributeDataSize,
                                  applyExtraOffsetWorkaroundForInstancedAttributes,
                                  driver)
             ELSE t,
             attribsToStream, instanceCount, indexRange, maxAttributeDataSize,
             applyExtraOffsetWorkaroundForInstancedAttributes, driver, idx + 1)

UnmapRetryAttempts == 5

(* the loop that retries for as long as the unmap fails *)
RetryCondition_WithoutLimit(unmapResult, unmapRetryAttempts) ==
    [enter |-> unmapResult # TRUE, unmapRetryAttempts |-> unmapRetryAttempts]

(* while (unmapResult != GL_TRUE && --unmapRetryAttempts > 0): the counter is
   decremented before it is tested, and only when the first conjunct holds *)
RetryCondition(unmapResult, unmapRetryAttempts) ==
    IF unmapResult # TRUE
    THEN [enter |-> unmapRetryAttempts - 1 > 0,
          unmapRetryAttempts |-> unmapRetryAttempts - 1]
    ELSE [enter |-> FALSE, unmapRetryAttempts |-> unmapRetryAttempts]

(* The fill-and-unmap cycles.  t also carries the unmap results seen so far. *)
RECURSIVE streamCycles(_, _, _, _, _, _, _, _, _)
streamCycles(t, attribsToStream, instanceCount, indexRange, sizes, requiredBufferSize, applyExtraOffsetWorkaroundForInstancedAttributes, driver, loop) ==
    LET cond == RetryCondition(loop.unmapResult, loop.unmapRetryAttempts)
        t1 == Issue(t, [fn |-> "mapBufferRange", target |-> "GL_ARRAY_BUFFER",
                        offset |-> 0, length |-> requiredBufferSize,
                        access |-> "GL_MAP_WRITE_BIT"])
        t2 == streamAttribsFrom(
                  [t1 EXCEPT !.curBufferOffset =
                                 sizes.maxAttributeDataSize * indexRange.start],
                  attribsToStream, instanceCount, indexRange,
                  sizes.maxAttributeDataSize,
                  applyExtraOffsetWorkaroundForInstancedAttributes, driver, 0)
        unmapResult == UnmapResultAt(driver, Len(t.unmaps) + 1)
        t3 == [Issue(t2, [fn |-> "unmapBuffer", target |-> "GL_ARRAY_BUFFER",
                          mapped |-> "write", result |-> unmapResult])
                  EXCEPT !.unmaps = Append(t.unmaps, unmapResult)]
    IN
    IF ~cond.enter
    THEN [t EXCEPT !.result =
                     IF loop.unmapResult = TRUE THEN "Continue" ELSE "Stop",
                   !.glError =
                     IF loop.unmapResult = TRUE THEN "GL_NO_ERROR"
                     ELSE "GL_OUT_OF_MEMORY"]
    ELSE IF t2.error
    THEN [t2 EXCEPT !.cycles = t.cycles + 1, !.result = "Stop",
                    !.glError = "driver"]
    ELSE streamCycles([t3 EXCEPT !.cycles = t.cycles + 1],
                      attribsToStream, instanceCount, indexRange, sizes,
                      requiredBufferSize,
                      applyExtraOffsetWorkaroundForInstancedAttributes, driver,
                      [unmapResult |-> unmapResult,
                       unmapRetryAttempts |-> cond.unmapRetryAttempts])

\* IndexRange(): an empty range at 0
DefaultIndexRange == [start |-> 0, end |-> 0]

(* What a draw reports besides the vertex array and the call log *)
NoStreaming ==
    [result |-> "Continue", glError |-> "GL_NO_ERROR", streamed |-> {},
     required |-> 0, capacityBefore |-> 0, cycles |-> 0, unmaps |-> <<>>,
     curBufferOffset |-> 0, error |-> FALSE, asserts |-> {},
     indexRange |-> DefaultIndexRange, indexRangeComputed |-> FALSE,
     outIndices |-> NullPointer,
     \* the calls of streamAttributes, and the attributes recovery went through
     streamAttributesCalls |-> <<>>, recovered |-> <<>>]

(* the slack in front of every attribute, once only *)
RequiredBufferSize_WithOneSlack(sizes, attribsToStream, indexRange) ==
    sizes.streamingDataSize + sizes.maxAttributeDataSize * indexRange.start

RequiredBufferSize(sizes, attribsToStream, indexRange) ==
    LET bufferEmptySpace ==
            Cardinality(attribsToStream) * sizes.maxAttributeDataSize * indexRange.start
    IN sizes.streamingDataSize + bufferEmptySpace

(* the streaming buffer, reallocated at every draw *)
growStreamingArrayBuffer_AtEveryDraw(s, requiredBufferSize) ==
    [Issue(s, [fn |-> "bufferData", target |-> "GL_ARRAY_BUFFER",
               size |-> requiredBufferSize, data |-> "nullptr"])
        EXCEPT !.v.mStreamingArrayBufferSize = requiredBufferSize]

(* the streaming buffer, grown to twice what is required *)
growStreamingArrayBuffer_Doubling(s, requiredBufferSize) ==
    IF requiredBufferSize > s.v.mStreamingArrayBufferSize
    THEN [Issue(s, [fn |-> "bufferData", target |-> "GL_ARRAY_BUFFER",
                    size |-> 2 * requiredBufferSize, data |-> "nullptr"])
             EXCEPT !.v.mStreamingArrayBufferSize = 2 * requiredBufferSize]
    ELSE s

\* if (requiredBufferSize > mStreamingArrayBufferSize) bufferData(...)
growStreamingArrayBuffer(s, requiredBufferSize) ==
    IF requiredBufferSize > s.v.mStreamingArrayBufferSize
    THEN [Issue(s, [fn |-> "bufferData", target |-> "GL_ARRAY_BUFFER",
                    size |-> requiredBufferSize, data |-> "nullptr"])
             EXCEPT !.v.mStreamingArrayBufferSize = requiredBufferSize]
    ELSE s

(* streamAttributes, giving the vertex array back as it found it when the
   unmaps have all failed *)
streamAttributes_RollingBackOnError(s, attribsToStream, instanceCount, indexRange, applyExtraOffsetWorkaroundForInstancedAttributes, driver) ==
    LET sizes == computeStreamingAttributeSizes(s.v, attribsToStream, instanceCount,
                                                indexRange)
        s1 == IF s.v.mStreamingArrayBuffer = 0
              THEN [Issue(s, [fn |-> "genBuffers", buffer |-> GenBufferNames.array])
                       EXCEPT !.v.mStreamingArrayBuffer = GenBufferNames.array,
                              !.v.mStreamingArrayBufferSize = 0]
              ELSE s
        requiredBufferSize == RequiredBufferSize(sizes, attribsToStream, indexRange)
        called == [attribsToStream |-> attribsToStream,
                   applyExtraOffsetWorkaroundForInstancedAttributes |->
                       applyExtraOffsetWorkaroundForInstancedAttributes]
        s2 == BindBuffer(s1, "Array", s1.v.mStreamingArrayBuffer)
        s3 == growStreamingArrayBuffer(s2, requiredBufferSize)
        s4 == BindVertexArray(s3)
        r == streamCycles(
                 [s4 EXCEPT !.streamAttributesCalls = Append(@, called),
                            !.streamed = attribsToStream,
                            !.required = requiredBufferSize,
                            !.capacityBefore = s.v.mStreamingArrayBufferSize],
                 attribsToStream, instanceCount, indexRange, sizes, requiredBufferSize,
                 applyExtraOffsetWorkaroundForInstancedAttributes, driver,
                 [unmapResult |-> FALSE, unmapRetryAttempts |-> UnmapRetryAttempts])
    IN
    IF sizes.streamingDataSize = 0
    THEN [s EXCEPT !.streamAttributesCalls = Append(@, called)]
    ELSE IF r.glError = "GL_OUT_OF_MEMORY" THEN [r EXCEPT !.v = s1.v] ELSE r

streamAttributes(s, attribsToStream, instanceCount, indexRange, applyExtraOffsetWorkaroundForInstancedAttributes, driver) ==
    LET sizes == computeStreamingAttributeSizes(s.v, attribsToStream, instanceCount,
                                                indexRange)
        s1 == IF s.v.mStreamingArrayBuffer = 0
              THEN [Issue(s, [fn |-> "genBuffers", buffer |-> GenBufferNames.array])
                       EXCEPT !.v.mStreamingArrayBuffer = GenBufferNames.array,
                              !.v.mStreamingArrayBufferSize = 0]
              ELSE s
        requiredBufferSize == RequiredBufferSize(sizes, attribsToStream, indexRange)
        called == [attribsToStream |-> attribsToStream,
                   applyExtraOffsetWorkaroundForInstancedAttributes |->
                       applyExtraOffsetWorkaroundForInstancedAttributes]
        s2 == BindBuffer(s1, "Array", s1.v.mStreamingArrayBuffer)
        s3 == growStreamingArrayBuffer(s2, requiredBufferSize)
        s4 == BindVertexArray(s3)
    IN
    IF sizes.streamingDataSize = 0
    THEN [s EXCEPT !.streamAttributesCalls = Append(@, called)]
    ELSE streamCycles(
             [s4 EXCEPT !.streamAttributesCalls = Append(@, called),
                        !.streamed = attribsToStream,
                        !.required = requiredBufferSize,
                        !.capacityBefore = s.v.mStreamingArrayBufferSize],
             attribsToStream, instanceCount, indexRange, sizes, requiredBufferSize,
             applyExtraOffsetWorkaroundForInstancedAttributes, driver,
             [unmapResult |-> FALSE, unmapRetryAttempts |-> UnmapRetryAttempts])

(* recoverForcedStreamingAttributesForDrawArraysInstanced(context, attributeMask):
   the pointer call of every attribute of the mask is set back to the buffer of
   its binding.  The buffer is dereferenced without a test: with no buffer on
   the binding the behaviour is undefined, and nullBuffer is what the build
   makes of it: a crash, or the buffer id it happens to read. *)
RECURSIVE recoverFrom(_, _, _, _)
recoverFrom(s, attributeMask, nullBuffer, idx) ==
    IF idx \notin Slots \/ s.result = "Crash" THEN s
    ELSE IF idx \notin attributeMask
    THEN recoverFrom(s, attributeMask, nullBuffer, idx + 1)
    ELSE LET attrib == mState.attribs[idx]
             s0 == EvaluateIsVertexAttribPointerSupported(s, idx, attrib)
             binding == mState.bindings[attrib.bindingIndex]
             bufferID == IF binding.buffer = NoBuffer THEN nullBuffer.id
                         ELSE GetBufferID(binding.buffer)
             s1 == BindBuffer(s0, "Array", bufferID)
             s2 == callVertexAttribPointer(s1, idx, attrib, binding.stride,
                                           binding.offset)
             processed == [index |-> idx, buffer |-> binding.buffer]
         IN IF binding.buffer = NoBuffer /\ nullBuffer.crash
            THEN [s0 EXCEPT !.result = "Crash",
                            !.recovered = Append(@, processed)]
            ELSE recoverFrom(
                     [s2 EXCEPT
                        !.recovered = Append(@, processed),
                        !.v.mAppliedAttributes[idx].format = attrib.format,
                        !.v.mAppliedAttributes[idx].relativeOffset = 0,
                        !.v.mAppliedAttributes[idx].bindingIndex = attrib.bindingIndex,
                        !.v.mAppliedBindings[idx].stride = binding.stride,
                        !.v.mAppliedBindings[idx].offset = binding.offset,
                        !.v.mAppliedBindings[idx].buffer = binding.buffer],
                     attributeMask, nullBuffer, idx + 1)

(* the recovery, clearing the recorded offsets of the recovered attributes only *)
recoverForcedStreamingAttributesForDrawArraysInstanced_ClearingRecoveredOnly(s, attributeMask, nullBuffer) ==
    IF attributeMask = {} THEN s
    ELSE LET r == recoverFrom(BindVertexArray(s), attributeMask, nullBuffer, 0) IN
         IF r.result = "Crash" THEN r
         ELSE [r EXCEPT !.v.mForcedStreamingAttributesFirstOffsets =
                            [i \in Slots |-> IF i \in attributeMask THEN 0 ELSE @[i]]]

(* the recovery, leaving the recorded offsets as they are *)
recoverForcedStreamingAttributesForDrawArraysInstanced_KeepingOffsets(s, attributeMask, nullBuffer) ==
    IF attributeMask = {} THEN s
    ELSE recoverFrom(BindVertexArray(s), attributeMask, nullBuffer, 0)

recoverForcedStreamingAttributesForDrawArraysInstanced(s, attributeMask, nullBuffer) ==
    IF attributeMask = {} THEN s
    ELSE LET r == recoverFrom(BindVertexArray(s), attributeMask, nullBuffer, 0) IN
         IF r.result = "Crash" THEN r
         ELSE [r EXCEPT !.v.mForcedStreamingAttributesFirstOffsets =
                            [i \in Slots |-> 0]]

\* gl::GetDrawElementsTypeSize
GetDrawElementsTypeSize(type) ==
    CASE type = "UnsignedByte" -> 1
      [] type = "UnsignedShort" -> 2
      [] type = "UnsignedInt" -> 4

(* the indices uploaded by a reallocation at every draw *)
uploadIndices_AlwaysReallocating(s, requiredStreamingBufferSize) ==
    [Issue(s, [fn |-> "bufferData", target |-> "GL_ELEMENT_ARRAY_BUFFER",
               size |-> requiredStreamingBufferSize, data |-> "indices"])
        EXCEPT !.v.mStreamingElementArrayBufferSize = requiredStreamingBufferSize]

(* "Make sure the element array buffer is large enough": the indices are
   copied in while the buffer is resized, or put at its beginning *)
uploadIndices(s, requiredStreamingBufferSize) ==
    IF requiredStreamingBufferSize > s.v.mStreamingElementArrayBufferSize
    THEN [Issue(s, [fn |-> "bufferData", target |-> "GL_ELEMENT_ARRAY_BUFFER",
                    size |-> requiredStreamingBufferSize, data |-> "indices"])
             EXCEPT !.v.mStreamingElementArrayBufferSize =
                        requiredStreamingBufferSize]
    ELSE Issue(s, [fn |-> "bufferSubData", target |-> "GL_ELEMENT_ARRAY_BUFFER",
                   offset |-> 0, size |-> requiredStreamingBufferSize,
                   data |-> "indices"])

(* the index range computed at every indexed draw *)
IndexRangeNeeded_Always(attributesNeedStreaming) == TRUE

(* "Only compute the index range if the attributes also need to be streamed" *)
IndexRangeNeeded(attributesNeedStreaming) == attributesNeedStreaming

(* syncIndexData.  indexData.range is the range of the indices the draw reads,
   which Buffer::getIndexRange and ComputeIndexRange compute from the data;
   the result carries indexRange and outIndices. *)
syncIndexData(s, count, type, indices, attributesNeedStreaming, indexData, driver) ==
    LET elementArrayBuffer == mState.elementArrayBuffer
        s0 == IF elementArrayBuffer # NoBuffer
                 /\ elementArrayBuffer # s.v.mAppliedElementArrayBuffer
              THEN [s EXCEPT !.asserts = @ \cup
                        {"elementArrayBuffer == mAppliedElementArrayBuffer.get()"}]
              ELSE s
        s1 == IF s.v.mStreamingElementArrayBuffer = 0
              THEN [Issue(s, [fn |-> "genBuffers",
                              buffer |-> GenBufferNames.elementArray])
                       EXCEPT !.v.mStreamingElementArrayBuffer =
                                   GenBufferNames.elementArray,
                              !.v.mStreamingElementArrayBufferSize = 0]
              ELSE s
        s2 == BindVertexArray(s1)
        s3 == [BindBuffer(s2, "ElementArray", s2.v.mStreamingElementArrayBuffer)
                  EXCEPT !.v.mAppliedElementArrayBuffer = NoBuffer]
        indexTypeBytes == GetDrawElementsTypeSize(type)
        requiredStreamingBufferSize == indexTypeBytes * count
        s4 == uploadIndices(s3, requiredStreamingBufferSize)
    IN
    IF elementArrayBuffer # NoBuffer
    THEN IF IndexRangeNeeded(attributesNeedStreaming) /\ driver.getIndexRangeFails
         THEN [s0 EXCEPT !.result = "Stop", !.glError = "getIndexRange",
                         !.indexRangeComputed = TRUE]
         ELSE [s0 EXCEPT !.indexRange = IF IndexRangeNeeded(attributesNeedStreaming)
                                        THEN indexData.range ELSE @,
                         !.indexRangeComputed =
                             IndexRangeNeeded(attributesNeedStreaming),
                         !.outIndices = indices]
    ELSE [s4 EXCEPT !.indexRange = IF IndexRangeNeeded(attributesNeedStreaming)
                                   THEN indexData.range ELSE @,
                    !.indexRangeComputed = IndexRangeNeeded(attributesNeedStreaming),
                    !.outIndices = NullPointer]

(* the workaround path taken whatever the feature says *)
needsExtraOffsetWorkaround_IgnoringFeature(first) ==
    first > 0

(* the workaround path taken whatever `first` is *)
needsExtraOffsetWorkaround_AtAnyFirst(first) ==
    context.shiftInstancedArrayDataWithExtraOffset

(* features.shiftInstancedArrayDataWithExtraOffset.enabled && first > 0 *)
needsExtraOffsetWorkaround(first) ==
    context.shiftInstancedArrayDataWithExtraOffset /\ first > 0

(* syncDrawState, going on to the general streaming path after the workaround's *)
syncDrawState_WithoutEarlyReturn(s, first, count, type, indices, instanceCount, indexData, driver) ==
    LET needsStreamingAttribs == getActiveClientAttribsMask(s.v)
        \* not an indexed call
        arrayRange == [start |-> first, end |-> first + count - 1]
        candidateAttributesMask ==
            s.v.mInstancedAttributesMask \cap s.v.mProgramActiveAttribLocationsMask
        moved == {attribIndex \in candidateAttributesMask :
                     s.v.mForcedStreamingAttributesFirstOffsets[attribIndex] # first}
        updatedStreamingAttribsMask == needsStreamingAttribs \cup moved
        w1 == [s EXCEPT
                 !.indexRange = arrayRange,
                 !.v.mForcedStreamingAttributesForDrawArraysInstancedMask = @ \cup moved,
                 !.v.mForcedStreamingAttributesFirstOffsets =
                     [i \in Slots |-> IF i \in moved THEN first ELSE @[i]]]
        forced == w1.v.mForcedStreamingAttributesForDrawArraysInstancedMask
        forcedStreamingAttributesNeedRecoverMask ==
            (candidateAttributesMask \ forced) \cup (forced \ candidateAttributesMask)
        w2 == IF forcedStreamingAttributesNeedRecoverMask # {}
              THEN LET r == recoverForcedStreamingAttributesForDrawArraysInstanced(
                                w1, forcedStreamingAttributesNeedRecoverMask,
                                driver.nullBuffer)
                   IN IF r.result = "Crash" THEN r
                      ELSE [r EXCEPT
                              !.v.mForcedStreamingAttributesForDrawArraysInstancedMask =
                                  candidateAttributesMask]
              ELSE w1
        \* an indexed call
        e1 == syncIndexData(s, count, type, indices, needsStreamingAttribs # {},
                            indexData, driver)
    IN
    IF type # "InvalidEnum"
    THEN IF e1.result # "Continue" THEN e1
         ELSE IF needsStreamingAttribs # {}
         THEN streamAttributes(e1, needsStreamingAttribs, instanceCount,
                               e1.indexRange, FALSE, driver)
         ELSE e1
    ELSE IF needsExtraOffsetWorkaround(first)
    THEN IF w2.result = "Crash" THEN w2
         ELSE LET w3 == IF updatedStreamingAttribsMask # {}
                        THEN streamAttributes(w2, updatedStreamingAttribsMask,
                                              instanceCount, arrayRange, TRUE, driver)
                        ELSE w2
              IN IF needsStreamingAttribs # {} /\ w3.result = "Continue"
                 THEN streamAttributes(w3, needsStreamingAttribs, instanceCount,
                                       arrayRange, FALSE, driver)
                 ELSE w3
    ELSE IF needsStreamingAttribs # {}
    THEN streamAttributes([s EXCEPT !.indexRange = arrayRange],
                          needsStreamingAttribs, instanceCount, arrayRange, FALSE,
                          driver)
    ELSE [s EXCEPT !.indexRange = arrayRange]

(* syncDrawState, passing the feature's flag to the streaming of an indexed draw *)
syncDrawState_FlagOnIndexedDraws(s, first, count, type, indices, instanceCount, indexData, driver) ==
    LET needsStreamingAttribs == getActiveClientAttribsMask(s.v)
        \* not an indexed call
        arrayRange == [start |-> first, end |-> first + count - 1]
        candidateAttributesMask ==
            s.v.mInstancedAttributesMask \cap s.v.mProgramActiveAttribLocationsMask
        moved == {attribIndex \in candidateAttributesMask :
                     s.v.mForcedStreamingAttributesFirstOffsets[attribIndex] # first}
        updatedStreamingAttribsMask == needsStreamingAttribs \cup moved
        w1 == [s EXCEPT
                 !.indexRange = arrayRange,
                 !.v.mForcedStreamingAttributesForDrawArraysInstancedMask = @ \cup moved,
                 !.v.mForcedStreamingAttributesFirstOffsets =
                     [i \in Slots |-> IF i \in moved THEN first ELSE @[i]]]
        forced == w1.v.mForcedStreamingAttributesForDrawArraysInstancedMask
        forcedStreamingAttributesNeedRecoverMask ==
            (candidateAttributesMask \ forced) \cup (forced \ candidateAttributesMask)
        w2 == IF forcedStreamingAttributesNeedRecoverMask # {}
              THEN LET r == recoverForcedStreamingAttributesForDrawArraysInstanced(
                                w1, forcedStreamingAttributesNeedRecoverMask,
                                driver.nullBuffer)
                   IN IF r.result = "Crash" THEN r
                      ELSE [r EXCEPT
                              !.v.mForcedStreamingAttributesForDrawArraysInstancedMask =
                                  candidateAttributesMask]
              ELSE w1
        \* an indexed call
        e1 == syncIndexData(s, count, type, indices, needsStreamingAttribs # {},
                            indexData, driver)
    IN
    IF type # "InvalidEnum"
    THEN IF e1.result # "Continue" THEN e1
         ELSE IF needsStreamingAttribs # {}
         THEN streamAttributes(e1, needsStreamingAttribs, instanceCount,
                               e1.indexRange,
                               context.shiftInstancedArrayDataWithExtraOffset, driver)
         ELSE e1
    ELSE IF needsExtraOffsetWorkaround(first)
    THEN IF w2.result = "Crash" THEN w2
         ELSE IF updatedStreamingAttribsMask # {}
         THEN streamAttributes(w2, updatedStreamingAttribsMask, instanceCount,
                               arrayRange, TRUE, driver)
         ELSE w2
    ELSE IF needsStreamingAttribs # {}
    THEN streamAttributes([s EXCEPT !.indexRange = arrayRange],
                          needsStreamingAttribs, instanceCount, arrayRange, FALSE,
                          driver)
    ELSE [s EXCEPT !.indexRange = arrayRange]

(* syncDrawState.  type is "InvalidEnum" for a draw without indices. *)
syncDrawState(s, first, count, type, indices, instanceCount, indexData, driver) ==
    LET needsStreamingAttribs == getActiveClientAttribsMask(s.v)
        \* not an indexed call
        arrayRange == [start |-> first, end |-> first + count - 1]
        candidateAttributesMask ==
            s.v.mInstancedAttributesMask \cap s.v.mProgramActiveAttribLocationsMask
        moved == {attribIndex \in candidateAttributesMask :
                     s.v.mForcedStreamingAttributesFirstOffsets[attribIndex] # first}
        updatedStreamingAttribsMask == needsStreamingAttribs \cup moved
        w1 == [s EXCEPT
                 !.indexRange = arrayRange,
                 !.v.mForcedStreamingAttributesForDrawArraysInstancedMask = @ \cup moved,
                 !.v.mForcedStreamingAttributesFirstOffsets =
                     [i \in Slots |-> IF i \in moved THEN first ELSE @[i]]]
        forced == w1.v.mForcedStreamingAttributesForDrawArraysInstancedMask
        forcedStreamingAttributesNeedRecoverMask ==
            (candidateAttributesMask \ forced) \cup (forced \ candidateAttributesMask)
        w2 == IF forcedStreamingAttributesNeedRecoverMask # {}
              THEN LET r == recoverForcedStreamingAttributesForDrawArraysInstanced(
                                w1, forcedStreamingAttributesNeedRecoverMask,
                                driver.nullBuffer)
                   IN IF r.result = "Crash" THEN r
                      ELSE [r EXCEPT
                              !.v.mForcedStreamingAttributesForDrawArraysInstancedMask =
                                  candidateAttributesMask]
              ELSE w1
        \* an indexed call
        e1 == syncIndexData(s, count, type, indices, needsStreamingAttribs # {},
                            indexData, driver)
    IN
    IF type # "InvalidEnum"
    THEN IF e1.result # "Continue" THEN e1
         ELSE IF needsStreamingAttribs # {}
         THEN streamAttributes(e1, needsStreamingAttribs, instanceCount,
                               e1.indexRange, FALSE, driver)
         ELSE e1
    ELSE IF needsExtraOffsetWorkaround(first)
    THEN IF w2.result = "Crash" THEN w2
         ELSE IF updatedStreamingAttribsMask # {}
         THEN streamAttributes(w2, updatedStreamingAttribsMask, instanceCount,
                               arrayRange, TRUE, driver)
         ELSE w2
    ELSE IF needsStreamingAttribs # {}
    THEN streamAttributes([s EXCEPT !.indexRange = arrayRange],
                          needsStreamingAttribs, instanceCount, arrayRange, FALSE,
                          driver)
    ELSE [s EXCEPT !.indexRange = arrayRange]

syncClientSideData(s, first, count, instanceCount, driver) ==
    syncDrawState(s, first, count, "InvalidEnum", NullPointer, instanceCount,
                  [range |-> DefaultIndexRange], driver)

(* destroy, deleting the objects and leaving the streaming capacities *)
destroy_KeepingCapacities(s) ==
    LET s1 == Issue(s, [fn |-> "stateManager.deleteVertexArray",
                        vao |-> s.v.mVertexArrayID])
        s2 == Issue(s1, [fn |-> "stateManager.deleteBuffer",
                         buffer |-> s.v.mStreamingElementArrayBuffer])
        s3 == Issue(s2, [fn |-> "stateManager.deleteBuffer",
                         buffer |-> s.v.mStreamingArrayBuffer])
    IN [s3 EXCEPT
          !.v.mVertexArrayID = 0,
          !.v.mAppliedNumViews = 1,
          !.v.mStreamingElementArrayBuffer = 0,
          !.v.mStreamingArrayBuffer = 0,
          !.v.mAppliedElementArrayBuffer = NoBuffer,
          !.v.mAppliedBindings =
              [i \in Slots |-> [@[i] EXCEPT !.buffer = NoBuffer]]]

destroy(s) ==
    LET s1 == Issue(s, [fn |-> "stateManager.deleteVertexArray",
                        vao |-> s.v.mVertexArrayID])
        s2 == Issue(s1, [fn |-> "stateManager.deleteBuffer",
                         buffer |-> s.v.mStreamingElementArrayBuffer])
        s3 == Issue(s2, [fn |-> "stateManager.deleteBuffer",
                         buffer |-> s.v.mStreamingArrayBuffer])
    IN [s3 EXCEPT
          !.v.mVertexArrayID = 0,
          !.v.mAppliedNumViews = 1,
          !.v.mStreamingElementArrayBufferSize = 0,
          !.v.mStreamingElementArrayBuffer = 0,
          !.v.mStreamingArrayBufferSize = 0,
          !.v.mStreamingArrayBuffer = 0,
          !.v.mAppliedElementArrayBuffer = NoBuffer,
          !.v.mAppliedBindings =
              [i \in Slots |-> [@[i] EXCEPT !.buffer = NoBuffer]]]

----------------------------------------------------------------------------
(* The inputs of syncState the model draws from *)

AttribDirtyBits ==
    IF supportVertexAttribBinding THEN Range(DirtyAttribBitType)
    ELSE Range(DirtyAttribBitType) \ BindingOnlyAttribBits

BindingDirtyBits ==
    IF supportVertexAttribBinding THEN Range(DirtyBindingBitType)
    ELSE Range(DirtyBindingBitType) \ BindingOnlyBindingBits

SlotDirtyBits(i, attribBits, bindingBits) ==
    [NoDirtyBits EXCEPT !.attribBits[i] = attribBits, !.bindingBits[i] = bindingBits]

AllDirtyBits ==
    [elementArrayBuffer |-> TRUE, elementArrayBufferData |-> TRUE,
     attribBits |-> [i \in Slots |-> AttribDirtyBits],
     bindingBits |-> [i \in Slots |-> BindingDirtyBits],
     bufferData |-> Slots]

(* every set of dirty bits of one slot, the data-only bits, and all bits at once *)
DirtyBitSets ==
    {SlotDirtyBits(i, ab, bb) :
        i \in Slots, ab \in SUBSET AttribDirtyBits, bb \in SUBSET BindingDirtyBits}
    \cup {AllDirtyBits,
          [NoDirtyBits EXCEPT !.elementArrayBuffer = TRUE],
          [NoDirtyBits EXCEPT !.elementArrayBufferData = TRUE, !.bufferData = Slots]}

(* one dirty bit of one slot *)
SingleDirtyBits ==
    {SlotDirtyBits(i, {ab}, {}) : i \in Slots, ab \in AttribDirtyBits}
    \cup {SlotDirtyBits(i, {}, {bb}) : i \in Slots, bb \in BindingDirtyBits}

(* The dirty bits the SyncState action draws from.  syncState visits the set
   bits one after the other, so a sync with several bits leaves the vertex
   array where the syncs of its bits, taken in the enum's order, leave it:
   single bits reach every state of the vertex array that any set reaches.
   The sets of all bits of one slot, and of all slots, are added for their
   call sequences. *)
SyncedDirtyBits ==
    SingleDirtyBits
    \cup {SlotDirtyBits(i, AttribDirtyBits, BindingDirtyBits) : i \in Slots}
    \cup {AllDirtyBits,
          [NoDirtyBits EXCEPT !.elementArrayBuffer = TRUE],
          [NoDirtyBits EXCEPT !.elementArrayBufferData = TRUE, !.bufferData = Slots]}

(* the slots all of whose attribute and binding dirty bits are in `dirty` *)
FullySyncedSlots(dirty) ==
    {i \in Slots : dirty.attribBits[i] = Range(DirtyAttribBitType)
                   /\ dirty.bindingBits[i] = Range(DirtyBindingBitType)}

(* the device calls that update vertex array state *)
StateUpdateFns ==
    {"enableVertexAttribArray", "disableVertexAttribArray",
     "vertexAttribPointer", "vertexAttribIPointer",
     "vertexAttribFormat", "vertexAttribIFormat",
     "vertexAttribBinding", "bindVertexBuffer",
     "vertexBindingDivisor", "vertexAttribDivisor"}

IsStateUpdate(call) == call.fn \in StateUpdateFns

StateUpdates(c) == SelectSeq(c, IsStateUpdate)

(* the Applied-State Cache *)
AppliedState(v) ==
    [attributes |-> v.mAppliedAttributes, bindings |-> v.mAppliedBindings,
     elementArrayBuffer |-> v.mAppliedElementArrayBuffer,
     numViews |-> v.mAppliedNumViews]

Fresh == [v |-> vao, c |-> <<>>]

After(r) == [v |-> r.v, c |-> <<>>]

(* The fields in which the applied state of slot i differs from what the
   snapshot asks of the device: the enabled flag asked for is the snapshot's
   AND the program-active bit, the divisor asked for is view count x base *)
Diffs(v) ==
    LET a(i) == v.mAppliedAttributes[i]
        b(i) == v.mAppliedBindings[i]
        sa(i) == mState.attribs[i]
        sb(i) == mState.bindings[i]
    IN  {<<i, "enabled">> : i \in {j \in Slots :
            a(j).enabled # (sa(j).enabled /\ j \in v.mProgramActiveAttribLocationsMask)}}
   \cup {<<i, "format">> : i \in {j \in Slots : a(j).format # sa(j).format}}
   \cup {<<i, "relativeOffset">> : i \in {j \in Slots :
            a(j).relativeOffset # sa(j).relativeOffset}}
   \cup {<<i, "bindingIndex">> : i \in {j \in Slots :
            a(j).bindingIndex # sa(j).bindingIndex}}
   \cup {<<i, "stride">> : i \in {j \in Slots : b(j).stride # sb(j).stride}}
   \cup {<<i, "offset">> : i \in {j \in Slots : b(j).offset # sb(j).offset}}
   \cup {<<i, "buffer">> : i \in {j \in Slots : b(j).buffer # sb(j).buffer}}
   \cup {<<i, "divisor">> : i \in {j \in Slots :
            b(j).divisor # GetAdjustedDivisor(v.mAppliedNumViews, sb(j).divisor)}}

(* the same, comparing the stored fields as they are *)
RawDiffs(v) ==
    ({d \in Diffs(v) : d[2] \notin {"enabled", "divisor"}})
    \cup {<<i, "enabled">> : i \in {j \in Slots :
            v.mAppliedAttributes[j].enabled # mState.attribs[j].enabled}}
    \cup {<<i, "divisor">> : i \in {j \in Slots :
            v.mAppliedBindings[j].divisor # mState.bindings[j].divisor}}

(* the dirty bit that belongs to a field, and the entry points it goes through *)
DirtyBitOf(d) ==
    CASE d[2] = "enabled" -> SlotDirtyBits(d[1], {"DIRTY_ATTRIB_ENABLED"}, {})
      [] d[2] \in {"format", "relativeOffset"} ->
             SlotDirtyBits(d[1], {"DIRTY_ATTRIB_FORMAT"}, {})
      [] d[2] = "bindingIndex" -> SlotDirtyBits(d[1], {"DIRTY_ATTRIB_BINDING"}, {})
      [] d[2] \in {"stride", "offset", "buffer"} ->
             SlotDirtyBits(d[1], {}, {"DIRTY_BINDING_BUFFER"})
      [] d[2] = "divisor" -> SlotDirtyBits(d[1], {}, {"DIRTY_BINDING_DIVISOR"})

EntryPointsOf(d) ==
    CASE d[2] = "enabled" -> {"enableVertexAttribArray", "disableVertexAttribArray"}
      [] d[2] \in {"format", "relativeOffset"} ->
             {"vertexAttribFormat", "vertexAttribIFormat"}
      [] d[2] = "bindingIndex" -> {"vertexAttribBinding"}
      [] d[2] \in {"stride", "offset", "buffer"} -> {"bindVertexBuffer"}
      [] d[2] = "divisor" -> {"vertexBindingDivisor", "vertexAttribDivisor"}

PointerFns == {"vertexAttribPointer", "vertexAttribIPointer"}

IsPointerCallOf(call, i) == call.fn \in PointerFns /\ call.index = i

PointerCallsOf(c, i) == {k \in 1 .. Len(c) : IsPointerCallOf(c[k], i)}

----------------------------------------------------------------------------
(* The GL device under FunctionsGL.  The engine never reads it, except in
   validateState; it is what the entry points the engine calls leave behind
   (OpenGL ES 3.1, section 10.3, and the state tables 6.4 and 6.5):
     - VertexAttribPointer(index, ...) sets the format of attribute index with
       relative offset 0, maps the attribute to binding index, records the
       stride as VERTEX_ATTRIB_ARRAY_STRIDE and binds the buffer bound to
       ARRAY_BUFFER to binding index;
     - BindVertexBuffer changes a binding and leaves VERTEX_ATTRIB_ARRAY_STRIDE
       of the attributes alone;
     - VertexAttribDivisor(index, d) maps attribute index to binding index and
       sets the divisor of that binding;
     - the queries of an attribute's buffer and divisor answer with those of
       the binding the attribute is mapped to. *)

\* gl::ToGLenum(VertexAttribType)
ToGLenum(vertexAttribType) ==
    CASE vertexAttribType = "Float" -> "GL_FLOAT"
      [] vertexAttribType = "Int" -> "GL_INT"

\* static_cast<GLuint>(bool)
BoolToGLuint(b) == IF b THEN 1 ELSE 0

DefaultDevice ==
    [vertexArray |-> 0, arrayBuffer |-> 0, elementArrayBuffer |-> 0,
     maxVertexAttribs |-> Cardinality(Slots),
     attribs |-> [i \in Slots |->
                     [enabled |-> FALSE, type |-> "GL_FLOAT", size |-> 4,
                      normalized |-> FALSE, integer |-> FALSE,
                      relativeOffset |-> 0, binding |-> i, stride |-> 0]],
     bindings |-> [i \in Slots |-> [buffer |-> 0, stride |-> 16, divisor |-> 0]]]

DeviceAfterCall(d, call) ==
    CASE call.fn = "stateManager.bindVertexArray" ->
             [d EXCEPT !.vertexArray = call.vao]
      [] call.fn = "stateManager.bindBuffer" ->
             IF call.target = "Array"
             THEN [d EXCEPT !.arrayBuffer = call.buffer]
             ELSE [d EXCEPT !.elementArrayBuffer = call.buffer]
      [] call.fn = "enableVertexAttribArray" ->
             [d EXCEPT !.attribs[call.index].enabled = TRUE]
      [] call.fn = "disableVertexAttribArray" ->
             [d EXCEPT !.attribs[call.index].enabled = FALSE]
      [] call.fn \in {"vertexAttribPointer", "vertexAttribIPointer"} ->
             [d EXCEPT
                !.attribs[call.index] =
                    [@ EXCEPT !.type = ToGLenum(call.format.vertexAttribType),
                              !.size = call.format.channelCount,
                              !.normalized = call.fn = "vertexAttribPointer"
                                             /\ call.format.isNorm,
                              !.integer = call.fn = "vertexAttribIPointer",
                              !.relativeOffset = 0,
                              !.binding = call.index,
                              !.stride = call.stride],
                !.bindings[call.index].buffer = d.arrayBuffer,
                !.bindings[call.index].stride = call.stride]
      [] call.fn \in {"vertexAttribFormat", "vertexAttribIFormat"} ->
             [d EXCEPT
                !.attribs[call.index] =
                    [@ EXCEPT !.type = ToGLenum(call.format.vertexAttribType),
                              !.size = call.format.channelCount,
                              !.normalized = call.fn = "vertexAttribFormat"
                                             /\ call.format.isNorm,
                              !.integer = call.fn = "vertexAttribIFormat",
                              !.relativeOffset = call.relativeOffset]]
      [] call.fn = "vertexAttribBinding" ->
             [d EXCEPT !.attribs[call.index].binding = call.bindingIndex]
      [] call.fn = "bindVertexBuffer" ->
             [d EXCEPT !.bindings[call.index].buffer = call.buffer,
                       !.bindings[call.index].stride = call.stride]
      [] call.fn = "vertexBindingDivisor" ->
             [d EXCEPT !.bindings[call.index].divisor = call.divisor]
      [] call.fn = "vertexAttribDivisor" ->
             [d EXCEPT !.attribs[call.index].binding = call.index,
                       !.bindings[call.index].divisor = call.divisor]
      [] call.fn = "stateManager.deleteVertexArray" ->
             [d EXCEPT !.vertexArray = 0,
                       !.elementArrayBuffer = 0,
                       !.attribs = DefaultDevice.attribs,
                       !.bindings = DefaultDevice.bindings]
      [] call.fn = "stateManager.deleteBuffer" ->
             [d EXCEPT !.arrayBuffer = IF @ = call.buffer THEN 0 ELSE @]
      [] OTHER -> d

RECURSIVE DeviceAfterFrom(_, _, _)
DeviceAfterFrom(d, c, k) ==
    IF k > Len(c) THEN d
    ELSE CHOOSE e \in {DeviceAfterFrom(next, c, k + 1) :
                           next \in {DeviceAfterCall(d, c[k])}} : TRUE

\* the device after the calls of a call log
DeviceAfter(d, c) ==
    CHOOSE e \in {DeviceAfterFrom(d, log, 1) : log \in {c}} : TRUE

\* glGetIntegerv and glGetVertexAttribiv, as validateState uses them
GetIntegerv(d, pname) ==
    CASE pname = "GL_VERTEX_ARRAY_BINDING" -> d.vertexArray
      [] pname = "GL_ELEMENT_ARRAY_BUFFER_BINDING" -> d.elementArrayBuffer
      [] pname = "GL_MAX_VERTEX_ATTRIBS" -> d.maxVertexAttribs

GetVertexAttribiv(d, index, pname) ==
    LET attrib == d.attribs[index]
        binding == d.bindings[attrib.binding]
    IN
    CASE pname = "GL_VERTEX_ATTRIB_ARRAY_ENABLED" -> BoolToGLuint(attrib.enabled)
      [] pname = "GL_VERTEX_ATTRIB_ARRAY_TYPE" -> attrib.type
      [] pname = "GL_VERTEX_ATTRIB_ARRAY_SIZE" -> attrib.size
      [] pname = "GL_VERTEX_ATTRIB_ARRAY_NORMALIZED" -> BoolToGLuint(attrib.normalized)
      [] pname = "GL_VERTEX_ATTRIB_ARRAY_INTEGER" -> BoolToGLuint(attrib.integer)
      [] pname = "GL_VERTEX_ATTRIB_RELATIVE_OFFSET" -> attrib.relativeOffset
      [] pname = "GL_VERTEX_ATTRIB_BINDING" -> attrib.binding
      [] pname = "GL_VERTEX_ATTRIB_ARRAY_BUFFER_BINDING" -> binding.buffer
      [] pname = "GL_VERTEX_ATTRIB_ARRAY_STRIDE" -> attrib.stride
      [] pname = "GL_VERTEX_ATTRIB_ARRAY_DIVISOR" -> binding.divisor

----------------------------------------------------------------------------
(* Front end: the owner of the snapshot changes one field at a time.  The
   relative offset and the binding index are set by the ES 3.1 entry points,
   which exist only on a device with vertex attrib binding. *)

AttribChanges(a) ==
    {[a EXCEPT !.enabled = ~a.enabled]}
    \cup {[a EXCEPT !.format = f] : f \in Formats \ {a.format}}
    \cup (IF supportVertexAttribBinding
          THEN {[a EXCEPT !.relativeOffset = r] :
                    r \in RelativeOffsets \ {a.relativeOffset}}
               \cup {[a EXCEPT !.bindingIndex = j] : j \in Slots \ {a.bindingIndex}}
          ELSE {})

BindingChanges(b) ==
    {[b EXCEPT !.buffer = x] : x \in (Buffers \cup {NoBuffer}) \ {b.buffer}}
    \cup {[b EXCEPT !.stride = x] : x \in Strides \ {b.stride}}
    \cup {[b EXCEPT !.offset = x] : x \in Offsets \ {b.offset}}
    \cup {[b EXCEPT !.divisor = x] : x \in Divisors \ {b.divisor}}

Alive == vao.mVertexArrayID # 0 /\ context.running

ChangeAttrib ==
    /\ Alive /\ changes < MaxChanges
    /\ \E i \in Slots : \E a \in AttribChanges(mState.attribs[i]) :
           mState' = [mState EXCEPT !.attribs[i] = a]
    /\ changes' = changes + 1
    /\ op' = [name |-> "changeAttrib"]
    /\ calls' = <<>>
    /\ UNCHANGED <<vao, context, maxRequired, device>>

ChangeBinding ==
    /\ Alive /\ changes < MaxChanges
    /\ \E i \in Slots : \E b \in BindingChanges(mState.bindings[i]) :
           mState' = [mState EXCEPT !.bindings[i] = b]
    /\ changes' = changes + 1
    /\ op' = [name |-> "changeBinding"]
    /\ calls' = <<>>
    /\ UNCHANGED <<vao, context, maxRequired, device>>

(* The application changes the divisor of an attribute: glVertexAttribDivisor *)
ChangeDivisor ==
    /\ Alive /\ changes < MaxChanges
    /\ \E i \in Slots : \E divisor \in Divisors \ {mState.bindings[i].divisor} :
          mState' = [mState EXCEPT !.bindings[i].divisor = divisor]
    /\ changes' = changes + 1
    /\ op' = [name |-> "changeDivisor"]
    /\ calls' = <<>>
    /\ UNCHANGED <<vao, context, maxRequired, device>>

(* The application enables or disables an attribute array:
   glEnableVertexAttribArray, glDisableVertexAttribArray *)
ChangeEnabled ==
    /\ Alive /\ changes < MaxChanges
    /\ \E i \in Slots :
          mState' = [mState EXCEPT !.attribs[i].enabled = ~mState.attribs[i].enabled]
    /\ changes' = changes + 1
    /\ op' = [name |-> "changeEnabled"]
    /\ calls' = <<>>
    /\ UNCHANGED <<vao, context, maxRequired, device>>

(* The application binds another element array buffer, or none:
   glBindBuffer(GL_ELEMENT_ARRAY_BUFFER, buffer) *)
ChangeElementArrayBuffer ==
    /\ Alive /\ changes < MaxChanges
    /\ \E buffer \in (Buffers \cup {NoBuffer}) \ {mState.elementArrayBuffer} :
          mState' = [mState EXCEPT !.elementArrayBuffer = buffer]
    /\ changes' = changes + 1
    /\ op' = [name |-> "changeElementArrayBuffer"]
    /\ calls' = <<>>
    /\ UNCHANGED <<vao, context, maxRequired, device>>

(* The application gives an attribute without buffer a buffer to read from:
   glBindBuffer(GL_ARRAY_BUFFER, buffer), then glVertexAttribPointer. *)
ChangeToBuffer ==
    /\ Alive /\ changes < MaxChanges
    /\ \E i \in Slots, buffer \in Buffers, offset \in Offsets :
          /\ mState.bindings[i].buffer = NoBuffer
          /\ mState' = [mState EXCEPT !.bindings[i].buffer = buffer,
                                      !.bindings[i].offset = offset,
                                      !.attribs[i].pointer = NullPointer]
    /\ changes' = changes + 1
    /\ op' = [name |-> "changeToBuffer"]
    /\ calls' = <<>>
    /\ UNCHANGED <<vao, context, maxRequired, device>>

(* The application moves an attribute from its buffer to client memory:
   glBindBuffer(GL_ARRAY_BUFFER, 0), then glVertexAttribPointer. *)
ChangeToClientMemory ==
    /\ Alive /\ changes < MaxChanges
    /\ \E i \in Slots, pointer \in ClientPointers :
          /\ mState.bindings[i].buffer # NoBuffer
          /\ mState' = [mState EXCEPT !.bindings[i].buffer = NoBuffer,
                                      !.bindings[i].offset = 0,
                                      !.attribs[i].pointer = pointer]
    /\ changes' = changes + 1
    /\ op' = [name |-> "changeToClientMemory"]
    /\ calls' = <<>>
    /\ UNCHANGED <<vao, context, maxRequired, device>>

----------------------------------------------------------------------------
(* The engine's operations *)

SyncState ==
    /\ Alive
    /\ \E dirty \in SyncedDirtyBits :
          LET r == syncState(Fresh, dirty) IN
          /\ vao' = r.v
          /\ calls' = r.c
          /\ device' = DeviceAfter(device, r.c)
          /\ op' = [name |-> "syncState", result |-> "Continue",
                    fullSlots |-> FullySyncedSlots(dirty),
                    singleBit |-> dirty \in SingleDirtyBits,
                    diffsBefore |-> Cardinality(Diffs(vao)),
                    cacheChanged |-> AppliedState(r.v) # AppliedState(vao)]
    /\ UNCHANGED <<mState, context, changes, maxRequired>>

ApplyNumViewsToDivisor ==
    /\ Alive /\ changes < MaxChanges
    /\ \E numViews \in NumViews :
          LET r == applyNumViewsToDivisor(Fresh, numViews) IN
          /\ vao' = r.v
          /\ calls' = r.c
          /\ device' = DeviceAfter(device, r.c)
          /\ op' = [name |-> "applyNumViewsToDivisor", numViews |-> numViews]
    /\ changes' = changes + 1
    /\ UNCHANGED <<mState, context, maxRequired>>

ApplyActiveAttribLocationsMask ==
    /\ Alive /\ changes < MaxChanges
    /\ \E activeMask \in SUBSET Slots :
          LET r == applyActiveAttribLocationsMask(Fresh, activeMask) IN
          /\ vao' = r.v
          /\ calls' = r.c
          /\ device' = DeviceAfter(device, r.c)
          /\ op' = [name |-> "applyActiveAttribLocationsMask", activeMask |-> activeMask]
    /\ changes' = changes + 1
    /\ UNCHANGED <<mState, context, maxRequired>>

----------------------------------------------------------------------------
(* Spec: the state-diffing machine.  The vertex array starts as constructed,
   over the default snapshot, on a device with or without vertex attrib
   binding. *)

Init ==
    /\ mState = DefaultVertexArrayState
    /\ vao = VertexArrayGL
    /\ device = DefaultDevice
    /\ context \in [vertexAttribBinding : BOOLEAN,
                    shiftInstancedArrayDataWithExtraOffset : {FALSE},
                    unmapResults : {<<>>}, glErrorChecked : {FALSE},
                    getIndexRangeFails : {FALSE}, running : {TRUE}]
    /\ calls = <<>>
    /\ op = [name |-> "VertexArrayGL"]
    /\ changes = 0
    /\ maxRequired = 0

Next ==
    \/ ChangeAttrib
    \/ ChangeBinding
    \/ SyncState
    \/ ApplyNumViewsToDivisor
    \/ ApplyActiveAttribLocationsMask

Spec == Init /\ [][Next]_vars

----------------------------------------------------------------------------
(* Claims about state diffing, checked under Spec *)

(* C1. Idempotence of syncState: in every state, for every set of dirty bits,
   a second syncState with the same dirty bits, nothing changed in between,
   issues no device state-update call and leaves the Applied-State Cache as
   the first sync left it. *)
C1_SyncStateIdempotent ==
    \A dirty \in DirtyBitSets :
        \A r1 \in {syncState(Fresh, dirty)} :
            LET r2 == syncState(After(r1), dirty)
            IN  /\ StateUpdates(r2.c) = <<>>
                /\ AppliedState(r2.v) = AppliedState(r1.v)

(* C2. No missed updates: after a syncState that processed every attribute
   and binding dirty bit of slot i on a device with vertex attrib binding, the
   applied format, relative offset and binding index of attribute i and the
   applied stride, offset, buffer and divisor (view count x base divisor) of
   binding i are the snapshot's. *)
C2_NoMissedUpdates ==
    (op.name = "syncState" /\ supportVertexAttribBinding) =>
        \A i \in op.fullSlots :
            LET a == vao.mAppliedAttributes[i]
                b == vao.mAppliedBindings[i]
            IN  /\ a.format = mState.attribs[i].format
                /\ a.relativeOffset = mState.attribs[i].relativeOffset
                /\ a.bindingIndex = mState.attribs[i].bindingIndex
                /\ b.stride = mState.bindings[i].stride
                /\ b.offset = mState.bindings[i].offset
                /\ b.buffer = mState.bindings[i].buffer
                /\ b.divisor = vao.mAppliedNumViews * mState.bindings[i].divisor

(* a full sync of a buffer-backed attribute with a relative offset went through
   the pointer call and then the format call *)
C2_Witness ==
    /\ op.name = "syncState" /\ supportVertexAttribBinding
    /\ \E i \in op.fullSlots :
          /\ mState.attribs[i].relativeOffset # 0
          /\ mState.bindings[i].buffer # NoBuffer
          /\ PointerCallsOf(calls, i) # {}
          /\ \E k \in 1 .. Len(calls) :
                calls[k].fn = "vertexAttribFormat" /\ calls[k].index = i

(* C3 as stated: when the stored fields of the snapshot and of the Applied-State
   Cache differ in exactly one field and the dirty bit of that field is synced,
   exactly one state-update call is issued, through that field's entry point. *)
DiffMinimal(d) ==
    DirtyBitOf(d) \in DirtyBitSets =>
        LET u == StateUpdates(syncState(Fresh, DirtyBitOf(d)).c) IN
        /\ Len(u) = 1
        /\ u[1].fn \in EntryPointsOf(d)
        /\ u[1].index = d[1]

C3_DiffMinimalityStoredFields ==
    Cardinality(RawDiffs(vao)) = 1 => \A d \in RawDiffs(vao) : DiffMinimal(d)

(* C3 amended: the same, where the enabled flag of the snapshot is taken as
   (enabled AND program-active) and its divisor as view count x base divisor. *)
C3_DiffMinimality ==
    Cardinality(Diffs(vao)) = 1 => \A d \in Diffs(vao) : DiffMinimal(d)

(* a sync of one dirty bit, from a state with exactly one differing field,
   issued exactly one call and left no difference *)
C3_Witness ==
    /\ op.name = "syncState" /\ op.singleBit /\ op.diffsBefore = 1
    /\ Len(StateUpdates(calls)) = 1
    /\ Diffs(vao) = {}

(* C4. Without vertex attrib binding, for a buffer-backed attribute whose
   applied pointer state (format, stride, offset, buffer) differs from the
   snapshot, a sync with a pointer dirty bit of that attribute issues exactly
   one pointer-set call for it, with the snapshot binding's stride and offset,
   and a second identical sync issues no call. *)
PointerStateDiffers(v, i) ==
    \/ v.mAppliedAttributes[i].format # mState.attribs[i].format
    \/ v.mAppliedBindings[i].stride # mState.bindings[i].stride
    \/ v.mAppliedBindings[i].offset # mState.bindings[i].offset
    \/ v.mAppliedBindings[i].buffer # mState.bindings[i].buffer

PointerDirtyBitSets(i) ==
    {dirty \in DirtyBitSets :
        dirty.attribBits[i] \cap {"DIRTY_ATTRIB_POINTER", "DIRTY_ATTRIB_POINTER_BUFFER"} # {}}

C4_PointerSyncWithoutBinding ==
    ~supportVertexAttribBinding =>
        \A i \in Slots :
            (mState.bindings[i].buffer # NoBuffer /\ PointerStateDiffers(vao, i)) =>
                \A dirty \in PointerDirtyBitSets(i) :
                \A r1 \in {syncState(Fresh, dirty)} :
                    LET r2 == syncState(After(r1), dirty)
                    IN  /\ Cardinality(PointerCallsOf(r1.c, i)) = 1
                        /\ \A k \in PointerCallsOf(r1.c, i) :
                              /\ r1.c[k].stride = mState.bindings[i].stride
                              /\ r1.c[k].pointer = mState.bindings[i].offset
                        /\ StateUpdates(r2.c) = <<>>

(* the scenario of the specification: stride 12, offset 0, one pointer call,
   and the attribute's pointer state is applied *)
C4_Witness ==
    /\ ~supportVertexAttribBinding
    /\ op.name = "syncState" /\ op.singleBit
    /\ \E i \in Slots :
          /\ mState.bindings[i].buffer # NoBuffer
          /\ mState.bindings[i].stride = 12 /\ mState.bindings[i].offset = 0
          /\ Cardinality(PointerCallsOf(calls, i)) = 1
          /\ \A k \in PointerCallsOf(calls, i) :
                calls[k].stride = 12 /\ calls[k].pointer = 0
          /\ ~PointerStateDiffers(vao, i)

----------------------------------------------------------------------------
(* Draws and destruction *)

Drawing == [v |-> vao, c |-> <<>>] @@ NoStreaming

NullBufferOutcomes ==
    {[crash |-> TRUE, id |-> NoBuffer]}
    \cup {[crash |-> FALSE, id |-> b] : b \in Buffers \cup {NoBuffer}}

Driver(nullBuffer) ==
    [unmapResults |-> context.unmapResults,
     glErrorChecked |-> context.glErrorChecked,
     getIndexRangeFails |-> context.getIndexRangeFails,
     nullBuffer |-> nullBuffer]

(* the outcomes of one draw: one, unless it dereferences a null buffer *)
DrawOutcomes(first, count, type, indices, instanceCount, indexData) ==
    LET r == syncDrawState(Drawing, first, count, type, indices, instanceCount,
                           indexData, Driver([crash |-> TRUE, id |-> NoBuffer]))
    IN IF r.result # "Crash" THEN {r}
       ELSE {syncDrawState(Drawing, first, count, type, indices, instanceCount,
                           indexData, Driver(nb)) : nb \in NullBufferOutcomes}

Drawn(r, name, type, count, indices, instanceCount) ==
    /\ vao' = r.v
    /\ calls' = r.c
    /\ device' = DeviceAfter(device, r.c)
    /\ op' = [name |-> name, type |-> type, count |-> count, indices |-> indices,
              instanceCount |-> instanceCount,
              result |-> r.result, glError |-> r.glError, streamed |-> r.streamed,
              required |-> r.required, capacityBefore |-> r.capacityBefore,
              cycles |-> r.cycles, unmaps |-> r.unmaps, asserts |-> r.asserts,
              curBufferOffset |-> r.curBufferOffset,
              indexRange |-> r.indexRange,
              indexRangeComputed |-> r.indexRangeComputed,
              outIndices |-> r.outIndices,
              streamAttributesCalls |-> r.streamAttributesCalls,
              recovered |-> r.recovered]
    /\ context' = [context EXCEPT
                     !.unmapResults =
                         SubSeq(context.unmapResults, Len(r.unmaps) + 1,
                                Len(context.unmapResults)),
                     !.running = r.result # "Crash"]
    /\ maxRequired' = IF r.streamed # {} THEN Max(maxRequired, r.required)
                      ELSE maxRequired
    /\ UNCHANGED <<mState, changes>>

\* glDrawArrays / glDrawArraysInstanced
DrawArrays ==
    /\ Alive
    /\ \E first \in Firsts, count \in Counts, instanceCount \in InstanceCounts :
       \E r \in DrawOutcomes(first, count, "InvalidEnum", NullPointer, instanceCount,
                             [range |-> DefaultIndexRange]) :
          Drawn(r, "syncClientSideData", "InvalidEnum", count, NullPointer,
                instanceCount)

DrawElementsTypes == {"UnsignedShort"}

\* the index data of a draw of `count` indices: the range of their values
IndexData(count) ==
    {[range |-> [start |-> ab[1], end |-> ab[2]]] :
        ab \in {x \in Firsts \X (0 .. (MaxFirst + 1)) :
                   x[2] >= x[1] /\ x[2] - x[1] + 1 <= count}}

\* glDrawElements / glDrawElementsInstanced
DrawElements ==
    /\ Alive
    /\ \E count \in Counts, type \in DrawElementsTypes, indices \in Offsets \ {0},
          instanceCount \in InstanceCounts :
       \E indexData \in IndexData(count) :
       \E r \in DrawOutcomes(0, count, type, indices, instanceCount, indexData) :
          Drawn(r, "syncDrawState", type, count, indices, instanceCount)

Destroy ==
    /\ Alive
    /\ LET r == destroy(Fresh) IN
          /\ vao' = r.v
          /\ calls' = r.c
          /\ device' = DeviceAfter(device, r.c)
    /\ op' = [name |-> "destroy"]
    /\ UNCHANGED <<mState, context, changes, maxRequired>>

----------------------------------------------------------------------------
(* SpecStream: the streaming machine.  The front end has set the vertex array
   up before its first use: each slot holds one of
     - a client-memory attribute of four floats, tightly packed, per vertex;
     - a client-memory attribute of one int, stride 12, per two instances;
     - a buffer-backed attribute of four floats, per instance;
     - the default, disabled attribute
   and indices come from client memory or from a buffer. *)

ClientFloat4(i) ==
    [attrib |-> [DefaultVertexAttribute(i) EXCEPT
                    !.enabled = TRUE, !.pointer = 64],
     binding |-> DefaultVertexBinding]

ClientInstancedInt(i) ==
    [attrib |-> [DefaultVertexAttribute(i) EXCEPT
                    !.enabled = TRUE, !.format = R32_SINT, !.pointer = 64],
     binding |-> [DefaultVertexBinding EXCEPT !.stride = 12, !.divisor = 2]]

BufferInstancedFloat4(i) ==
    [attrib |-> [DefaultVertexAttribute(i) EXCEPT !.enabled = TRUE],
     binding |-> [DefaultVertexBinding EXCEPT
                     !.buffer = 1, !.offset = 8, !.divisor = 1]]

Unused(i) ==
    [attrib |-> DefaultVertexAttribute(i), binding |-> DefaultVertexBinding]

SlotSetups(i) ==
    {ClientFloat4(i), ClientInstancedInt(i), BufferInstancedFloat4(i), Unused(i)}

Snapshot(setup, elementArrayBuffer) ==
    [attribs |-> [i \in Slots |-> setup[i + 1].attrib],
     bindings |-> [i \in Slots |-> setup[i + 1].binding],
     elementArrayBuffer |-> elementArrayBuffer]

\* a device, and the driver under it
Device(vertexAttribBinding, shiftInstancedArrayDataWithExtraOffset, unmapResults, glErrorChecked, getIndexRangeFails) ==
    [vertexAttribBinding |-> vertexAttribBinding,
     shiftInstancedArrayDataWithExtraOffset |-> shiftInstancedArrayDataWithExtraOffset,
     unmapResults |-> unmapResults, glErrorChecked |-> glErrorChecked,
     getIndexRangeFails |-> getIndexRangeFails, running |-> TRUE]

TwoClientAttributes == Snapshot(<<ClientFloat4(0), ClientInstancedInt(1)>>, NoBuffer)
IndexBufferAndClientAttribute == Snapshot(<<ClientInstancedInt(0), Unused(1)>>, 2)
InstancedBufferAndClientAttribute ==
    Snapshot(<<BufferInstancedFloat4(0), ClientFloat4(1)>>, NoBuffer)

(* the vertex arrays and devices the streaming machine starts from *)
StreamingSetups ==
    {<<TwoClientAttributes, Device(TRUE, FALSE, <<>>, FALSE, FALSE)>>,
     <<TwoClientAttributes, Device(FALSE, FALSE, <<FALSE>>, FALSE, FALSE)>>,
     <<TwoClientAttributes,
       Device(TRUE, FALSE, <<FALSE, FALSE, FALSE, FALSE>>, FALSE, FALSE)>>,
     <<TwoClientAttributes, Device(TRUE, TRUE, <<>>, FALSE, FALSE)>>,
     <<InstancedBufferAndClientAttribute, Device(TRUE, TRUE, <<>>, FALSE, FALSE)>>,
     <<InstancedBufferAndClientAttribute, Device(TRUE, TRUE, <<FALSE>>, TRUE, FALSE)>>}

InitStream ==
    /\ \E setup \in StreamingSetups : mState = setup[1] /\ context = setup[2]
    /\ vao = VertexArrayGL
    /\ device = DefaultDevice
    /\ calls = <<>>
    /\ op = [name |-> "VertexArrayGL"]
    /\ changes = 0
    /\ maxRequired = 0

NextStream ==
    \/ ApplyNumViewsToDivisor
    \/ ApplyActiveAttribLocationsMask
    \/ DrawArrays
    \/ Destroy

SpecStream == InitStream /\ [][NextStream]_vars

----------------------------------------------------------------------------
(* SpecRetry: draws of one client-memory attribute over a driver that has
   decided the results of its next UnmapScriptLen unmaps, in every way. *)

OneClientAttribute == Snapshot(<<ClientFloat4(0), Unused(1)>>, NoBuffer)

InitRetry ==
    /\ mState = OneClientAttribute
    /\ vao = VertexArrayGL
    /\ device = DefaultDevice
    /\ \E unmapResults \in [1 .. UnmapScriptLen -> BOOLEAN] :
          context = Device(TRUE, FALSE, unmapResults, FALSE, FALSE)
    /\ calls = <<>>
    /\ op = [name |-> "VertexArrayGL"]
    /\ changes = 0
    /\ maxRequired = 0

NextRetry ==
    \/ ApplyActiveAttribLocationsMask
    \/ DrawArrays

SpecRetry == InitRetry /\ [][NextRetry]_vars

----------------------------------------------------------------------------
(* Claims about the retry loop, checked under SpecRetry *)

IsDraw == op.name \in {"syncClientSideData", "syncDrawState"}

\* the fill cycles of the last draw: the mappings of the streaming buffer
FillCycles(c) ==
    {k \in 1 .. Len(c) :
        c[k].fn = "mapBufferRange" /\ c[k].access = "GL_MAP_WRITE_BIT"}

\* the unmaps of the streaming buffer in the last draw
StreamingUnmaps(c) ==
    {k \in 1 .. Len(c) : c[k].fn = "unmapBuffer" /\ c[k].mapped = "write"}

\* the results the driver had decided for the unmaps of the last draw
UnmapPlan == op.unmaps \o context.unmapResults

(* C5. A streaming draw returns the out-of-memory error exactly when the first
   five unmaps the driver had decided all fail, and Continue when one of them
   succeeds: it retries the fill-and-unmap cycle up to 5 times. *)
C5_RetriesFiveTimes ==
    (IsDraw /\ op.streamed # {}) =>
        LET firstFive == {UnmapResultAt([unmapResults |-> UnmapPlan], k) :
                              k \in 1 .. UnmapRetryAttempts}
        IN  /\ (TRUE \in firstFive) => op.result = "Continue"
            /\ (TRUE \notin firstFive) =>
                   op.result = "Stop" /\ op.glError = "GL_OUT_OF_MEMORY"
            /\ op.result = "Stop" => Cardinality(StreamingUnmaps(calls)) = UnmapRetryAttempts

(* C6. A draw ends after at most 5 fill-and-unmap cycles, with Continue or
   with an error result, and has no cycle after an unmap that succeeded,
   whatever the unmap results are. *)
C6_RetryTerminates ==
    IsDraw =>
        /\ Cardinality(FillCycles(calls)) <= UnmapRetryAttempts
        /\ op.result \in {"Continue", "Stop"}
        /\ \A u \in StreamingUnmaps(calls) :
              calls[u].result = TRUE => \A k \in FillCycles(calls) : k < u

(* a draw whose unmaps all failed ended with the out-of-memory error, and one
   that the driver let succeed at a later attempt ended with Continue *)
C6_Witness ==
    /\ IsDraw /\ op.streamed # {}
    /\ op.result = "Stop" /\ op.glError = "GL_OUT_OF_MEMORY"
    /\ Cardinality(FillCycles(calls)) > 1
    /\ \A u \in StreamingUnmaps(calls) : calls[u].result = FALSE

----------------------------------------------------------------------------
(* Claims about the streaming buffer, checked under SpecStream *)

\* the reallocations of the vertex streaming buffer in a call log
Reallocations(c) ==
    {k \in 1 .. Len(c) : c[k].fn = "bufferData" /\ c[k].target = "GL_ARRAY_BUFFER"}

(* C7. From creation to destroy no step lowers the capacity of the vertex
   streaming buffer, and a draw that requires no more than the capacity it
   finds issues no bufferData on the vertex streaming buffer. *)
C7_GrowthMonotonic ==
    [][/\ vao'.mVertexArrayID # 0 =>
              vao'.mStreamingArrayBufferSize >= vao.mStreamingArrayBufferSize
       /\ (/\ op'.name \in {"syncClientSideData", "syncDrawState"}
           /\ op'.required <= vao.mStreamingArrayBufferSize) =>
              Reallocations(calls') = {}]_vars

(* a draw that streamed into a buffer larger than it required, and left it
   as large as it was *)
C7_Witness ==
    /\ IsDraw /\ op.streamed # {}
    /\ op.required < op.capacityBefore
    /\ vao.mStreamingArrayBufferSize = op.capacityBefore
    /\ Reallocations(calls) = {}

(* C8. A draw that requires more than the capacity of the vertex streaming
   buffer reallocates it to exactly the required size, and the capacity of a
   live vertex array is the largest size a draw has required so far. *)
C8_GrowsToExactlyRequired ==
    /\ (IsDraw /\ op.streamed # {} /\ op.required > op.capacityBefore) =>
           /\ vao.mStreamingArrayBufferSize = op.required
           /\ \E k \in Reallocations(calls) :
                 /\ Reallocations(calls) = {k}
                 /\ calls[k].size = op.required
    /\ vao.mVertexArrayID # 0 => vao.mStreamingArrayBufferSize = maxRequired

(* a second growth: a draw that found a buffer already allocated and too small *)
C8_Witness ==
    /\ IsDraw /\ op.streamed # {}
    /\ op.capacityBefore > 0
    /\ op.required > op.capacityBefore
    /\ vao.mStreamingArrayBufferSize = op.required
    /\ maxRequired = op.required

\* the least q with q * d >= n, for d > 0
CeilDiv(n, d) == CHOOSE q \in 0 .. n : q * d >= n /\ (q - 1) * d < n

\* the divisor the driver sees for the binding of attribute idx
AdjustedDivisorOf(idx) ==
    vao.mAppliedNumViews * mState.bindings[mState.attribs[idx].bindingIndex].divisor

IndexRanges ==
    {[start |-> a, end |-> b] : a \in Firsts, b \in 0 .. (MaxFirst + 1)}

\* the element count computeStreamingAttributeSizes gives attribute idx alone
ElementCountOf(idx, instanceCount, indexRange) ==
    computeStreamingAttributeSizes(vao, {idx}, instanceCount, indexRange).streamingDataSize
        \div ComputeVertexAttributeTypeSize(mState.attribs[idx])

(* C9. In computeStreamingAttributeSizes an attribute whose adjusted divisor
   (view count x base divisor) is 0 counts end - start + 1 elements, and one
   whose adjusted divisor d is positive counts ceil(instanceCount / d) when
   instanceCount > 0; with instanceCount 10 and range [0, 0] a divisor-2
   attribute counts 5 and a divisor-0 attribute 1. *)
C9_StreamingSizeLaw ==
    \A idx \in Slots :
       /\ \A instanceCount \in InstanceCounts, indexRange \in IndexRanges :
             indexRange.start <= indexRange.end =>
                /\ AdjustedDivisorOf(idx) = 0 =>
                       ElementCountOf(idx, instanceCount, indexRange)
                           = indexRange.end - indexRange.start + 1
                /\ (AdjustedDivisorOf(idx) > 0 /\ instanceCount > 0) =>
                       ElementCountOf(idx, instanceCount, indexRange)
                           = CeilDiv(instanceCount, AdjustedDivisorOf(idx))
       /\ AdjustedDivisorOf(idx) = 2 =>
              ElementCountOf(idx, 10, [start |-> 0, end |-> 0]) = 5
       /\ AdjustedDivisorOf(idx) = 0 =>
              ElementCountOf(idx, 10, [start |-> 0, end |-> 0]) = 1

(* the draw of the example: 10 instances of the single vertex 0, a divisor-0
   attribute copied as 1 element and a divisor-2 attribute as 5 elements *)
C9_Witness ==
    /\ IsDraw /\ op.instanceCount = 10
    /\ op.indexRange = [start |-> 0, end |-> 0]
    /\ \E i, j \in op.streamed :
          /\ AdjustedDivisorOf(i) = 0 /\ AdjustedDivisorOf(j) = 2
          /\ \E k \in 1 .. Len(calls) :
                /\ calls[k].fn = "memcpy" /\ calls[k].index = i
                /\ calls[k].size = ComputeVertexAttributeTypeSize(mState.attribs[i])
          /\ \E k \in 1 .. Len(calls) :
                /\ calls[k].fn = "memcpy" /\ calls[k].index = j
                /\ calls[k].size = 5 * ComputeVertexAttributeTypeSize(mState.attribs[j])

RECURSIVE SumOver(_, _, _)
SumOver(S, instanceCount, indexRange) ==
    IF S = {} THEN 0
    ELSE LET idx == CHOOSE x \in S : TRUE IN
         ComputeVertexAttributeTypeSize(mState.attribs[idx])
             * StreamedElementCount(vao, idx, instanceCount, indexRange)
         + SumOver(S \ {idx}, instanceCount, indexRange)

\* the largest element type size among the attributes of S
MaxTypeSize(S) ==
    CHOOSE m \in {ComputeVertexAttributeTypeSize(mState.attribs[i]) : i \in S} :
        \A i \in S : ComputeVertexAttributeTypeSize(mState.attribs[i]) <= m

(* C10. The size a draw requires of the vertex streaming buffer is the sum over
   its streamed attributes of type size x element count, plus the largest type
   size among them x their number x indexRange.start. *)
C10_RequiredSize ==
    (IsDraw /\ op.streamed # {}) =>
        op.required = SumOver(op.streamed, op.instanceCount, op.indexRange)
                      + MaxTypeSize(op.streamed) * Cardinality(op.streamed)
                        * op.indexRange.start

(* a draw of two attributes of different type sizes that starts past vertex 0 *)
C10_Witness ==
    /\ IsDraw /\ Cardinality(op.streamed) = 2
    /\ op.indexRange.start > 0
    /\ \E i, j \in op.streamed :
          ComputeVertexAttributeTypeSize(mState.attribs[i])
              # ComputeVertexAttributeTypeSize(mState.attribs[j])
    /\ op.required > SumOver(op.streamed, op.instanceCount, op.indexRange)

\* the copies into the mapped streaming buffer in a call log
Copies(c) == {k \in 1 .. Len(c) : c[k].fn = "memcpy"}

(* C11. In every streaming draw, with and without the instanced-offset
   workaround and on both copy paths, every byte range written into the mapped
   streaming buffer and the final running buffer offset lie within
   [0, requiredBufferSize]. *)
C11_WritesWithinRequired ==
    (IsDraw /\ op.streamed # {}) =>
        /\ \A k \in Copies(calls) :
              calls[k].dst >= 0 /\ calls[k].dst + calls[k].size <= op.required
        /\ op.curBufferOffset >= 0 /\ op.curBufferOffset <= op.required

----------------------------------------------------------------------------
(* SpecForced and SpecIndex: draws of a vertex array the state manager has
   synced.  Before the first draw every dirty bit of the snapshot has gone
   through syncState; then the program's mask and the view count change, and
   draws follow: without indices on a device with the instanced-offset
   workaround in SpecForced, with and without indices in SpecIndex. *)

BufferFloat4(i) ==
    [attrib |-> [DefaultVertexAttribute(i) EXCEPT !.enabled = TRUE],
     binding |-> [DefaultVertexBinding EXCEPT !.buffer = 1, !.offset = 8]]

InstancedBufferAndInstancedClient ==
    Snapshot(<<BufferInstancedFloat4(0), ClientInstancedInt(1)>>, NoBuffer)
TwoInstancedBuffers ==
    Snapshot(<<BufferInstancedFloat4(0), BufferInstancedFloat4(1)>>, NoBuffer)
IndexBufferBufferAndClient == Snapshot(<<BufferFloat4(0), ClientFloat4(1)>>, 2)
ClientIndicesBufferAndClient == Snapshot(<<BufferFloat4(0), ClientFloat4(1)>>, NoBuffer)

\* the first syncState of the snapshot, and the vertex array after it
FirstSync == syncState([v |-> VertexArrayGL, c |-> <<>>], AllDirtyBits)

Synced == FirstSync.v

ForcedSetups ==
    {<<InstancedBufferAndClientAttribute, Device(TRUE, TRUE, <<>>, FALSE, FALSE)>>,
     <<InstancedBufferAndInstancedClient, Device(TRUE, TRUE, <<>>, FALSE, FALSE)>>,
     <<TwoInstancedBuffers, Device(TRUE, TRUE, <<>>, FALSE, FALSE)>>}

InitForced ==
    /\ \E setup \in ForcedSetups : mState = setup[1] /\ context = setup[2]
    /\ \E r \in {FirstSync} :
          vao = r.v /\ device = DeviceAfter(DefaultDevice, r.c)
    /\ calls = <<>>
    /\ op = [name |-> "VertexArrayGL"]
    /\ changes = 0
    /\ maxRequired = 0

NextForced ==
    \/ ApplyNumViewsToDivisor
    \/ ApplyActiveAttribLocationsMask
    \/ DrawArrays

SpecForced == InitForced /\ [][NextForced]_vars

IndexSetups ==
    {<<IndexBufferBufferAndClient, Device(TRUE, FALSE, <<>>, FALSE, FALSE)>>,
     <<IndexBufferBufferAndClient, Device(TRUE, FALSE, <<>>, FALSE, TRUE)>>,
     <<ClientIndicesBufferAndClient, Device(FALSE, FALSE, <<>>, FALSE, FALSE)>>,
     <<InstancedBufferAndClientAttribute, Device(TRUE, TRUE, <<>>, FALSE, FALSE)>>}

InitIndex ==
    /\ \E setup \in IndexSetups : mState = setup[1] /\ context = setup[2]
    /\ \E r \in {FirstSync} :
          vao = r.v /\ device = DeviceAfter(DefaultDevice, r.c)
    /\ calls = <<>>
    /\ op = [name |-> "VertexArrayGL"]
    /\ changes = 0
    /\ maxRequired = 0

NextIndex ==
    \/ ApplyActiveAttribLocationsMask
    \/ DrawArrays
    \/ DrawElements

SpecIndex == InitIndex /\ [][NextIndex]_vars

\* the attributes the last draw streamed: copied, then pointed at the copy
StreamedSlots(c) ==
    {idx \in Slots :
        \E k \in Copies(c) :
           c[k].index = idx /\ \E j \in PointerCallsOf(c, idx) : j > k}

\* the last pointer-set call of a call log for attribute idx
LastPointerCallOf(c, idx) ==
    c[CHOOSE j \in PointerCallsOf(c, idx) : \A k \in PointerCallsOf(c, idx) : k <= j]

(* C12. After a draw has streamed attribute idx, the cache records it as bound
   to the streaming buffer: applied format = snapshot format, applied relative
   offset 0, applied binding index idx, and applied binding idx with stride =
   the element type size, offset = the start offset passed to the pointer-set
   call, and no buffer. *)
C12_StreamedAttributeTracked ==
    IsDraw =>
        \A idx \in StreamedSlots(calls) :
           /\ vao.mAppliedAttributes[idx].format = mState.attribs[idx].format
           /\ vao.mAppliedAttributes[idx].relativeOffset = 0
           /\ vao.mAppliedAttributes[idx].bindingIndex = idx
           /\ vao.mAppliedBindings[idx].stride
                  = ComputeVertexAttributeTypeSize(mState.attribs[idx])
           /\ vao.mAppliedBindings[idx].offset
                  = LastPointerCallOf(calls, idx).pointer
           /\ LastPointerCallOf(calls, idx).stride
                  = ComputeVertexAttributeTypeSize(mState.attribs[idx])
           /\ vao.mAppliedBindings[idx].buffer = NoBuffer

(* a workaround draw that streamed a buffer-backed instanced attribute and a
   client-memory attribute *)
C12_Witness ==
    /\ IsDraw /\ op.result = "Continue"
    /\ \E i, j \in StreamedSlots(calls) :
          /\ mState.bindings[mState.attribs[i].bindingIndex].buffer # NoBuffer
          /\ mState.bindings[mState.attribs[j].bindingIndex].buffer = NoBuffer
          /\ vao.mAppliedBindings[i].buffer = NoBuffer
          /\ vao.mAppliedBindings[j].offset > 0

(* C13. In an indexed draw the index range is computed, from the element array
   buffer or from the client indices, if and only if some attribute needs
   streaming; and with buffer-backed indices the index pointer returned is the
   offset supplied. *)
C13_LazyIndexRange ==
    op.name = "syncDrawState" =>
        /\ op.indexRangeComputed <=> getActiveClientAttribsMask(vao) # {}
        /\ (mState.elementArrayBuffer # NoBuffer /\ op.result = "Continue") =>
               op.outIndices = op.indices

(* an indexed draw from an index buffer with nothing to stream: no range, the
   offset returned as supplied *)
C13_Witness ==
    /\ op.name = "syncDrawState"
    /\ mState.elementArrayBuffer # NoBuffer
    /\ getActiveClientAttribsMask(vao) = {}
    /\ ~op.indexRangeComputed
    /\ op.indices # NullPointer /\ op.outIndices = op.indices
    /\ calls = <<>>

\* the uploads into the index streaming buffer in a call log
IndexUploads(c) ==
    {k \in 1 .. Len(c) :
        /\ c[k].fn \in {"bufferData", "bufferSubData"}
        /\ c[k].target = "GL_ELEMENT_ARRAY_BUFFER"}

(* C14. An indexed draw with no element array buffer in the snapshot copies
   its indices into the index streaming buffer at every draw: by a
   reallocation to exactly count x index type size when that exceeds the
   capacity, else at offset 0 with the capacity unchanged; the applied element
   array buffer becomes none and the index pointer returned is the zero offset. *)
C14_ClientIndexStreaming ==
    [][(op'.name = "syncDrawState" /\ mState.elementArrayBuffer = NoBuffer) =>
          LET size == op'.count * GetDrawElementsTypeSize(op'.type) IN
          /\ \E k \in IndexUploads(calls') :
                /\ IndexUploads(calls') = {k}
                /\ calls'[k].size = size /\ calls'[k].data = "indices"
                /\ IF size > vao.mStreamingElementArrayBufferSize
                   THEN /\ calls'[k].fn = "bufferData"
                        /\ vao'.mStreamingElementArrayBufferSize = size
                   ELSE /\ calls'[k].fn = "bufferSubData" /\ calls'[k].offset = 0
                        /\ vao'.mStreamingElementArrayBufferSize
                               = vao.mStreamingElementArrayBufferSize
          /\ vao'.mAppliedElementArrayBuffer = NoBuffer
          /\ op'.outIndices = NullPointer]_vars

(* a draw of client indices into an index streaming buffer larger than they need *)
C14_Witness ==
    /\ op.name = "syncDrawState" /\ mState.elementArrayBuffer = NoBuffer
    /\ op.indices # NullPointer /\ op.outIndices = NullPointer
    /\ \E k \in IndexUploads(calls) :
          /\ calls[k].fn = "bufferSubData"
          /\ calls[k].size < vao.mStreamingElementArrayBufferSize

(* C15. When no attribute needs streaming and the workaround path is not
   taken, a draw without indices, or with indices from a buffer, returns
   Continue, issues no device call and leaves the vertex array as it was: the
   cache, both streaming buffers and their capacities, the forced-streaming
   mask and the recorded offsets. *)
C15_NothingToSync ==
    [][(/\ getActiveClientAttribsMask(vao) = {}
        /\ \/ /\ op'.name = "syncClientSideData"
              /\ ~(/\ context.shiftInstancedArrayDataWithExtraOffset
                   /\ op'.indexRange.start > 0)
           \/ /\ op'.name = "syncDrawState"
              /\ mState.elementArrayBuffer # NoBuffer) =>
          /\ op'.result = "Continue"
          /\ calls' = <<>>
          /\ vao' = vao]_vars

(* a draw at first = 0 on the workaround device, after a forced streaming whose
   attribute the program no longer reads: nothing is recovered, nothing called *)
C15_Witness ==
    /\ op.name = "syncClientSideData" /\ op.result = "Continue"
    /\ context.shiftInstancedArrayDataWithExtraOffset
    /\ op.indexRange.start = 0
    /\ getActiveClientAttribsMask(vao) = {}
    /\ vao.mForcedStreamingAttributesForDrawArraysInstancedMask
           \ vao.mProgramActiveAttribLocationsMask # {}
    /\ calls = <<>>

----------------------------------------------------------------------------
(* Claims about divisors, checked under Spec *)

DivisorFns == {"vertexBindingDivisor", "vertexAttribDivisor"}

\* the divisor calls of a call log for binding b
DivisorCallsOf(c, b) ==
    {k \in 1 .. Len(c) : c[k].fn \in DivisorFns /\ c[k].index = b}

(* C16. After a sync of the divisor dirty bit of binding b, the applied divisor
   of b is the applied view count x the snapshot's base divisor of b, and a
   divisor call is issued only if that product differs from the divisor
   applied before. *)
C16_DivisorTimesViews ==
    \A b \in Slots :
       \A r \in {syncState(Fresh, SlotDirtyBits(b, {}, {"DIRTY_BINDING_DIVISOR"}))} :
          LET product == vao.mAppliedNumViews * mState.bindings[b].divisor IN
          /\ r.v.mAppliedBindings[b].divisor = product
          /\ \A k \in DivisorCallsOf(r.c, b) :
                /\ product # vao.mAppliedBindings[b].divisor
                /\ r.c[k].divisor = product
          /\ \A k \in 1 .. Len(r.c) : r.c[k].fn \in DivisorFns => r.c[k].index = b

(* a sync that applied a base divisor under two views: one call, with twice
   the base divisor *)
C16_Witness ==
    /\ op.name = "syncState" /\ op.singleBit
    /\ vao.mAppliedNumViews = 2
    /\ \E b \in Slots :
          /\ mState.bindings[b].divisor > 0
          /\ vao.mAppliedBindings[b].divisor = 2 * mState.bindings[b].divisor
          /\ \E k \in DivisorCallsOf(calls, b) :
                /\ DivisorCallsOf(calls, b) = {k}
                /\ calls[k].divisor = 2 * mState.bindings[b].divisor

(* C17. Slot i is in the instanced-attribute mask if and only if the applied
   divisor of binding i is greater than 0. *)
C17_InstancedMask ==
    \A i \in Slots :
       i \in vao.mInstancedAttributesMask <=> vao.mAppliedBindings[i].divisor > 0

(* a binding whose divisor went back to 0 and left the mask *)
C17_Witness ==
    /\ op.name = "syncState"
    /\ \E i \in Slots :
          /\ \E k \in DivisorCallsOf(calls, i) : calls[k].divisor = 0
          /\ vao.mAppliedBindings[i].divisor = 0
          /\ i \notin vao.mInstancedAttributesMask

(* C18. applyNumViewsToDivisor(n) with n different from the applied view count
   leaves the applied view count n and every applied divisor n x the
   snapshot's base divisor; with n equal to the applied view count it issues
   no call and changes nothing. *)
C18_ViewCountRecomputesDivisors ==
    \A n \in NumViews :
       \A r \in {applyNumViewsToDivisor(Fresh, n)} :
          IF n # vao.mAppliedNumViews
          THEN /\ r.v.mAppliedNumViews = n
               /\ \A b \in Slots :
                     r.v.mAppliedBindings[b].divisor = n * mState.bindings[b].divisor
          ELSE r.c = <<>> /\ r.v = vao

(* a change to two views that recomputed a divisor the snapshot had changed *)
C18_Witness ==
    /\ op.name = "applyNumViewsToDivisor" /\ op.numViews = 2
    /\ vao.mAppliedNumViews = 2
    /\ \E b \in Slots :
          /\ mState.bindings[b].divisor > 0
          /\ vao.mAppliedBindings[b].divisor = 2 * mState.bindings[b].divisor
          /\ DivisorCallsOf(calls, b) # {}
    /\ \A b \in Slots :
          vao.mAppliedBindings[b].divisor = 2 * mState.bindings[b].divisor

----------------------------------------------------------------------------
(* Claims about forced streaming, checked under SpecForced *)

\* the candidates of the workaround: instanced and read by the program
CandidateAttributes(v) ==
    v.mInstancedAttributesMask \cap v.mProgramActiveAttribLocationsMask

\* a step that is a draw without indices on the workaround path
IsWorkaroundDraw ==
    /\ op'.name = "syncClientSideData"
    /\ context.shiftInstancedArrayDataWithExtraOffset
    /\ op'.indexRange.start > 0

(* C19. In a draw without indices with the workaround enabled and first > 0,
   every candidate (instanced and program-active) whose recorded forced offset
   differs from first is added to the forced-streaming mask, gets its recorded
   offset set to first and is streamed in this draw; a candidate whose recorded
   offset equals first is not added to the streamed set by the workaround. *)
C19_ForcedStreamingTransition ==
    [][IsWorkaroundDraw =>
          \A a \in CandidateAttributes(vao) :
             IF vao.mForcedStreamingAttributesFirstOffsets[a] # op'.indexRange.start
             THEN /\ a \in vao'.mForcedStreamingAttributesForDrawArraysInstancedMask
                  /\ vao'.mForcedStreamingAttributesFirstOffsets[a]
                         = op'.indexRange.start
                  /\ a \in op'.streamed
             ELSE a \in op'.streamed => a \in getActiveClientAttribsMask(vao)]_vars

\* attribute a recovered in the step: its pointer set back to its binding
RecoveredInStep(a) ==
    LET binding == mState.bindings[mState.attribs[a].bindingIndex] IN
    /\ op'.result # "Crash"
    /\ \E k \in PointerCallsOf(calls', a) :
          /\ PointerCallsOf(calls', a) = {k}
          /\ calls'[k].stride = binding.stride
          /\ calls'[k].pointer = binding.offset
          /\ k > 1
          /\ calls'[k - 1] = [fn |-> "stateManager.bindBuffer", target |-> "Array",
                              buffer |-> GetBufferID(binding.buffer)]
          /\ \A j \in 1 .. Len(calls') : calls'[j].fn = "mapBufferRange" => k < j
    /\ vao'.mAppliedBindings[a].buffer = binding.buffer
    /\ vao'.mAppliedBindings[a].stride = binding.stride
    /\ vao'.mAppliedBindings[a].offset = binding.offset
    /\ a \notin vao'.mForcedStreamingAttributesForDrawArraysInstancedMask
    /\ vao'.mForcedStreamingAttributesFirstOffsets[a] = 0

(* C20. At a workaround draw, an attribute of the forced-streaming mask that is
   no longer a candidate (instanced and program-active) is recovered before
   the streaming: one pointer-set call with the buffer, stride and offset of
   its snapshot binding, its applied binding set to those values, the
   attribute out of the forced-streaming mask and its recorded offset 0. *)
C20_Recovery ==
    [][IsWorkaroundDraw =>
          \A a \in vao.mForcedStreamingAttributesForDrawArraysInstancedMask
                       \ CandidateAttributes(vao) :
             RecoveredInStep(a)]_vars

\* the attributes a workaround draw forces: candidates whose offset moved
NewlyForced(v, first) ==
    {a \in CandidateAttributes(v) :
        v.mForcedStreamingAttributesFirstOffsets[a] # first}

(* C21. One syncDrawState invokes streamAttributes at most once.  On the
   workaround path (feature enabled, no indices, first > 0) the pointer call
   of every recovered attribute comes before the streaming buffer is mapped,
   streamAttributes is invoked with the union of the client-memory attributes
   and the newly forced attributes and with the extra-offset flag, once if
   that union is not empty, and the general streaming path (the flag not set)
   is not run. *)
C21_StreamsAtMostOnce ==
    [][op'.name \in {"syncClientSideData", "syncDrawState"} =>
          /\ Len(op'.streamAttributesCalls) <= 1
          /\ IsWorkaroundDraw =>
                LET union == getActiveClientAttribsMask(vao)
                             \cup NewlyForced(vao, op'.indexRange.start)
                IN
                /\ \A n \in 1 .. Len(op'.recovered) :
                      op'.result # "Crash" =>
                         \E k \in PointerCallsOf(calls', op'.recovered[n].index) :
                            \A j \in FillCycles(calls') : k < j
                /\ \A n \in 1 .. Len(op'.streamAttributesCalls) :
                      op'.streamAttributesCalls[n] =
                         [attribsToStream |-> union,
                          applyExtraOffsetWorkaroundForInstancedAttributes |-> TRUE]
                /\ (union # {} /\ op'.result # "Crash") =>
                       Len(op'.streamAttributesCalls) = 1]_vars

(* a workaround draw that recovered an attribute the program no longer reads
   and then streamed a client-memory attribute, in one streaming *)
C21_Witness ==
    /\ op.name = "syncClientSideData" /\ op.result = "Continue"
    /\ context.shiftInstancedArrayDataWithExtraOffset /\ op.indexRange.start > 0
    /\ Len(op.recovered) = 1
    /\ Len(op.streamAttributesCalls) = 1
    /\ op.streamAttributesCalls[1].applyExtraOffsetWorkaroundForInstancedAttributes
    /\ op.streamed # {}
    /\ \E k \in PointerCallsOf(calls, op.recovered[1].index) :
          \A j \in FillCycles(calls) : k < j

----------------------------------------------------------------------------
(* validateState: the diagnostic comparison of the Applied-State Cache with
   what the device answers.  s carries the vertex array, the call log and the
   warnings written so far, each named by the helper's localName and the
   attribute index (-1 for a query that has none). *)

ValidateStateHelperGetIntegerv(s, d, localValue, pname, localName) ==
    LET queryValue == GetIntegerv(d, pname) IN
    [Issue(s, [fn |-> "getIntegerv", pname |-> pname])
        EXCEPT !.warnings = IF localValue # queryValue
                            THEN @ \cup {<<localName, -1>>} ELSE @]

ValidateStateHelperGetVertexAttribiv(s, d, index, localValue, pname, localName) ==
    LET queryValue == GetVertexAttribiv(d, index, pname) IN
    [Issue(s, [fn |-> "getVertexAttribiv", index |-> index, pname |-> pname])
        EXCEPT !.warnings = IF localValue # queryValue
                            THEN @ \cup {<<localName, index>>} ELSE @]

\* "Check each applied attribute/binding": one turn of the loop
validateAttribute(s, d, index) ==
    LET attribute == s.v.mAppliedAttributes[index]
        binding == s.v.mAppliedBindings[attribute.bindingIndex]
        s1 == ValidateStateHelperGetVertexAttribiv(
                  s, d, index, BoolToGLuint(attribute.enabled),
                  "GL_VERTEX_ATTRIB_ARRAY_ENABLED", "mAppliedAttributes.enabled")
        s2 == ValidateStateHelperGetVertexAttribiv(
                  s1, d, index, ToGLenum(attribute.format.vertexAttribType),
                  "GL_VERTEX_ATTRIB_ARRAY_TYPE",
                  "mAppliedAttributes.format->vertexAttribType")
        s3 == ValidateStateHelperGetVertexAttribiv(
                  s2, d, index, attribute.format.channelCount,
                  "GL_VERTEX_ATTRIB_ARRAY_SIZE", "attribute.format->channelCount")
        s4 == ValidateStateHelperGetVertexAttribiv(
                  s3, d, index, BoolToGLuint(attribute.format.isNorm),
                  "GL_VERTEX_ATTRIB_ARRAY_NORMALIZED", "attribute.format->isNorm()")
        s5 == ValidateStateHelperGetVertexAttribiv(
                  s4, d, index, BoolToGLuint(attribute.format.isPureInt),
                  "GL_VERTEX_ATTRIB_ARRAY_INTEGER", "attribute.format->isPureInt()")
        s6 == IF supportVertexAttribBinding
              THEN ValidateStateHelperGetVertexAttribiv(
                       s5, d, index, attribute.relativeOffset,
                       "GL_VERTEX_ATTRIB_RELATIVE_OFFSET", "attribute.relativeOffset")
              ELSE s5
        s7 == IF supportVertexAttribBinding
              THEN ValidateStateHelperGetVertexAttribiv(
                       s6, d, index, attribute.bindingIndex,
                       "GL_VERTEX_ATTRIB_BINDING", "attribute.bindingIndex")
              ELSE s5
        s8 == ValidateStateHelperGetVertexAttribiv(
                  s7, d, index, GetBufferID(binding.buffer),
                  "GL_VERTEX_ATTRIB_ARRAY_BUFFER_BINDING", "mAppliedBindings.bufferID")
        s9 == ValidateStateHelperGetVertexAttribiv(
                  s8, d, index, binding.stride,
                  "GL_VERTEX_ATTRIB_ARRAY_STRIDE", "binding.getStride()")
    IN
    IF ~attribute.enabled THEN s1
    ELSE IF binding.buffer = NoBuffer
    THEN ValidateStateHelperGetVertexAttribiv(
             s7, d, index, s.v.mStreamingArrayBuffer,
             "GL_VERTEX_ATTRIB_ARRAY_BUFFER_BINDING", "mAppliedBindings.bufferID")
    ELSE ValidateStateHelperGetVertexAttribiv(
             s9, d, index, binding.divisor,
             "GL_VERTEX_ATTRIB_ARRAY_DIVISOR", "binding.getDivisor()")

RECURSIVE validateAttributesFrom(_, _, _)
validateAttributesFrom(s, d, index) ==
    IF index \notin Slots THEN s
    ELSE CHOOSE r \in {validateAttributesFrom(next, d, index + 1) :
                           next \in {validateAttribute(s, d, index)}} : TRUE

(* validateState, which drops from the cache the enabled flag of every
   attribute it finds different, for the next sync to set it again *)
validateState_Repairing(s, d) ==
    LET s0 == [v |-> s.v, c |-> s.c, warnings |-> {}]
        s1 == ValidateStateHelperGetIntegerv(
                  s0, d, s.v.mVertexArrayID, "GL_VERTEX_ARRAY_BINDING",
                  "mVertexArrayID")
        s2 == ValidateStateHelperGetIntegerv(
                  s1, d, getAppliedElementArrayBufferID(s),
                  "GL_ELEMENT_ARRAY_BUFFER_BINDING", "mAppliedElementArrayBuffer")
        queryValue == GetIntegerv(d, "GL_MAX_VERTEX_ATTRIBS")
        s3 == [Issue(s2, [fn |-> "getIntegerv", pname |-> "GL_MAX_VERTEX_ATTRIBS"])
                  EXCEPT !.warnings =
                      IF Cardinality(DOMAIN s.v.mAppliedAttributes) > queryValue
                      THEN @ \cup {<<"mAppliedAttributes.size()", -1>>} ELSE @]
        s4 == validateAttributesFrom(s3, d, 0)
    IN [s4 EXCEPT !.v.mAppliedAttributes =
           [i \in Slots |->
               [@[i] EXCEPT !.enabled =
                    @ /\ \A w \in s4.warnings : w[2] # i]]]

validateState(s, d) ==
    LET s0 == [v |-> s.v, c |-> s.c, warnings |-> {}]
        s1 == ValidateStateHelperGetIntegerv(
                  s0, d, s.v.mVertexArrayID, "GL_VERTEX_ARRAY_BINDING",
                  "mVertexArrayID")
        s2 == ValidateStateHelperGetIntegerv(
                  s1, d, getAppliedElementArrayBufferID(s),
                  "GL_ELEMENT_ARRAY_BUFFER_BINDING", "mAppliedElementArrayBuffer")
        queryValue == GetIntegerv(d, "GL_MAX_VERTEX_ATTRIBS")
        s3 == [Issue(s2, [fn |-> "getIntegerv", pname |-> "GL_MAX_VERTEX_ATTRIBS"])
                  EXCEPT !.warnings =
                      IF Cardinality(DOMAIN s.v.mAppliedAttributes) > queryValue
                      THEN @ \cup {<<"mAppliedAttributes.size()", -1>>} ELSE @]
    IN validateAttributesFrom(s3, d, 0)

ValidateState ==
    /\ Alive
    /\ \E r \in {validateState(Fresh, device)} :
          /\ vao' = r.v
          /\ calls' = r.c
          /\ device' = DeviceAfter(device, r.c)
          /\ op' = [name |-> "validateState", warnings |-> r.warnings]
    /\ UNCHANGED <<mState, context, changes, maxRequired>>

\* the mismatches validateState found in its loop over the attributes
AttributeMismatches == {w \in op.warnings : w[2] \in Slots}

(* C22. Round trip: after any sequence of syncState,
   applyActiveAttribLocationsMask (and view-count and draw) operations,
   validateState finds no mismatch between the Applied-State Cache and the
   device in its attribute checks: enabled flag, format, relative offset and
   binding index, bound buffer id (the streaming buffer id when the applied
   buffer is none), stride and divisor. *)
C22_RoundTrip ==
    op.name = "validateState" => AttributeMismatches = {}

\* the entry points of FunctionsGL that read the device's state
DeviceQueries == {"getIntegerv", "getVertexAttribiv"}

(* C23. validateState is pure observation: it leaves the vertex array (the
   Applied-State Cache, the masks, the recorded offsets, the streaming
   buffers) and the device as they were, every call it issues is a device
   query, and it returns nothing: its outcome is the set of mismatches it
   logged, empty or not. *)
C23_PureObservation ==
    [][op'.name = "validateState" =>
          /\ vao' = vao
          /\ device' = device
          /\ \A k \in 1 .. Len(calls') : calls'[k].fn \in DeviceQueries
          /\ DOMAIN op' = {"name", "warnings"}]_vars

(* validateState has run on an enabled attribute and found a mismatch *)
C23_Witness ==
    /\ op.name = "validateState"
    /\ AttributeMismatches # {}
    /\ \E i \in Slots : vao.mAppliedAttributes[i].enabled
    /\ Len(calls) > 3

----------------------------------------------------------------------------
(* SpecValidate: a synced vertex array, with an instanced attribute read from
   a buffer and an attribute read from client memory, on a device with vertex
   attrib binding and the instanced-offset workaround.  The application moves
   attributes to client memory and to buffers and changes the program, the
   engine syncs and is validated against the device. *)

ValidateSetups ==
    {<<InstancedBufferAndClientAttribute, Device(TRUE, TRUE, <<>>, FALSE, FALSE)>>}

InitValidate ==
    /\ \E setup \in ValidateSetups : mState = setup[1] /\ context = setup[2]
    /\ \E r \in {FirstSync} :
          vao = r.v /\ device = DeviceAfter(DefaultDevice, r.c)
    /\ calls = <<>>
    /\ op = [name |-> "VertexArrayGL"]
    /\ changes = 0
    /\ maxRequired = 0

NextValidate ==
    \/ ChangeToClientMemory
    \/ ChangeToBuffer
    \/ SyncState
    \/ ApplyActiveAttribLocationsMask
    \/ ValidateState

SpecValidate == InitValidate /\ [][NextValidate]_vars

----------------------------------------------------------------------------
(* SpecSyncDraw: syncs between draws.  The same vertex array, synced, on a
   device with neither vertex attrib binding nor the workaround; the
   application changes divisors, the view count and the program change, and
   the state manager syncs dirty bits between the draws. *)

SyncDrawSetups ==
    {<<InstancedBufferAndClientAttribute, Device(FALSE, FALSE, <<>>, FALSE, FALSE)>>}

InitSyncDraw ==
    /\ \E setup \in SyncDrawSetups : mState = setup[1] /\ context = setup[2]
    /\ \E r \in {FirstSync} :
          vao = r.v /\ device = DeviceAfter(DefaultDevice, r.c)
    /\ calls = <<>>
    /\ op = [name |-> "VertexArrayGL"]
    /\ changes = 0
    /\ maxRequired = 0

NextSyncDraw ==
    \/ ChangeDivisor
    \/ SyncState
    \/ ApplyNumViewsToDivisor
    \/ ApplyActiveAttribLocationsMask
    \/ DrawArrays

SpecSyncDraw == InitSyncDraw /\ [][NextSyncDraw]_vars

----------------------------------------------------------------------------
(* SpecResync: syncs between the draws of the instanced-offset workaround.
   The same vertex array, synced, on a device with vertex attrib binding and
   the workaround. *)

ResyncSetups ==
    {<<InstancedBufferAndClientAttribute, Device(TRUE, TRUE, <<>>, FALSE, FALSE)>>}

InitResync ==
    /\ \E setup \in ResyncSetups : mState = setup[1] /\ context = setup[2]
    /\ \E r \in {FirstSync} :
          vao = r.v /\ device = DeviceAfter(DefaultDevice, r.c)
    /\ calls = <<>>
    /\ op = [name |-> "VertexArrayGL"]
    /\ changes = 0
    /\ maxRequired = 0

NextResync ==
    \/ SyncState
    \/ ApplyActiveAttribLocationsMask
    \/ DrawArrays

SpecResync == InitResync /\ [][NextResync]_vars

\* the entry points that exist only with vertex attrib binding
BindingOnlyFns ==
    {"vertexAttribFormat", "vertexAttribIFormat", "vertexAttribBinding",
     "bindVertexBuffer", "vertexBindingDivisor"}

(* C24. Capability gate: on a device without vertex attrib binding, whatever
   syncs (of the ENABLED, POINTER, POINTER_BUFFER and binding DIVISOR bits),
   view-count changes, mask changes and draws happen, no attribute-format,
   attribute-binding, bind-vertex-buffer or vertex-binding-divisor entry point
   is called, and every change of an applied divisor goes with a
   vertexAttribDivisor call for that slot and divisor. *)
C24_CapabilityGate ==
    [][~supportVertexAttribBinding =>
          /\ \A k \in 1 .. Len(calls') : calls'[k].fn \notin BindingOnlyFns
          /\ \A i \in Slots :
                vao'.mAppliedBindings[i].divisor # vao.mAppliedBindings[i].divisor =>
                   \E k \in 1 .. Len(calls') :
                      calls'[k] = [fn |-> "vertexAttribDivisor", index |-> i,
                                   divisor |-> vao'.mAppliedBindings[i].divisor]]_vars

(* a view-count change on such a device that went through vertexAttribDivisor *)
C24_Witness ==
    /\ ~supportVertexAttribBinding
    /\ op.name = "applyNumViewsToDivisor"
    /\ \E k \in 1 .. Len(calls) :
          calls[k].fn = "vertexAttribDivisor" /\ calls[k].divisor > 1

----------------------------------------------------------------------------
(* SpecDispatch: the application changes attributes and bindings of the
   default snapshot and the state manager syncs the dirty bits, on a device
   with or without vertex attrib binding. *)

NextDispatch ==
    \/ ChangeAttrib
    \/ ChangeBinding
    \/ SyncState

SpecDispatch == Init /\ [][NextDispatch]_vars

\* the update a dirty bit of slot i stands for, and its entry points
UpdateOf(s, i, dirtyBit) ==
    CASE dirtyBit = "DIRTY_ATTRIB_ENABLED" -> updateAttribEnabled(s, i)
      [] dirtyBit = "DIRTY_ATTRIB_POINTER" -> updateAttribPointer(s, i)
      [] dirtyBit = "DIRTY_ATTRIB_POINTER_BUFFER" -> updateAttribPointer(s, i)
      [] dirtyBit = "DIRTY_ATTRIB_FORMAT" -> updateAttribFormat(s, i)
      [] dirtyBit = "DIRTY_ATTRIB_BINDING" -> updateAttribBinding(s, i)
      [] dirtyBit = "DIRTY_BINDING_BUFFER" -> updateBindingBuffer(s, i)
      [] dirtyBit = "DIRTY_BINDING_DIVISOR" -> updateBindingDivisor(s, i)

EntryPointsOfBit(dirtyBit) ==
    CASE dirtyBit = "DIRTY_ATTRIB_ENABLED" ->
             {"enableVertexAttribArray", "disableVertexAttribArray"}
      [] dirtyBit \in {"DIRTY_ATTRIB_POINTER", "DIRTY_ATTRIB_POINTER_BUFFER"} ->
             {"vertexAttribPointer", "vertexAttribIPointer"}
      [] dirtyBit = "DIRTY_ATTRIB_FORMAT" -> {"vertexAttribFormat", "vertexAttribIFormat"}
      [] dirtyBit = "DIRTY_ATTRIB_BINDING" -> {"vertexAttribBinding"}
      [] dirtyBit = "DIRTY_BINDING_BUFFER" -> {"bindVertexBuffer"}
      [] dirtyBit = "DIRTY_BINDING_DIVISOR" ->
             {"vertexBindingDivisor", "vertexAttribDivisor"}

BitDispatched(i, dirtyBit, dirty) ==
    \A r \in {syncState(Fresh, dirty)} :
       /\ r = UpdateOf(BindVertexArray(Fresh), i, dirtyBit)
       /\ Len(StateUpdates(r.c)) <= 1
       /\ \A k \in 1 .. Len(r.c) :
             IsStateUpdate(r.c[k]) =>
                r.c[k].fn \in EntryPointsOfBit(dirtyBit) /\ r.c[k].index = i

(* C25. Dirty-bit dispatch: a sync of one attribute dirty bit does what the
   one update of its kind does (ENABLED: enable toggle; POINTER and
   POINTER_BUFFER: pointer/buffer update; FORMAT: format update; BINDING:
   attribute-to-binding update) and a sync of one binding dirty bit likewise
   (BUFFER: buffer rebind; DIVISOR: divisor update), with at most one state
   update, through that kind's entry point, for that slot; a sync of the
   buffer-data and element-array-buffer-data bits issues no state update and
   leaves the vertex array as a sync without dirty bits does. *)
C25_DirtyBitDispatch ==
    /\ \A i \in Slots :
          /\ \A ab \in AttribDirtyBits :
                BitDispatched(i, ab, SlotDirtyBits(i, {ab}, {}))
          /\ \A bb \in BindingDirtyBits :
                BitDispatched(i, bb, SlotDirtyBits(i, {}, {bb}))
    /\ \A bufferData \in SUBSET Slots, elementArrayBufferData \in BOOLEAN :
          \A r \in {syncState(Fresh, [NoDirtyBits EXCEPT
                                        !.bufferData = bufferData,
                                        !.elementArrayBufferData =
                                             elementArrayBufferData])} :
             /\ r = BindVertexArray(Fresh)
             /\ r.v = vao
             /\ StateUpdates(r.c) = <<>>

(* a sync of one dirty bit has gone through the format entry point, in a
   state where the pointer bit of the same slot would issue a pointer call *)
C25_Witness ==
    /\ op.name = "syncState" /\ op.singleBit
    /\ Len(StateUpdates(calls)) = 1
    /\ StateUpdates(calls)[1].fn \in {"vertexAttribFormat", "vertexAttribIFormat"}
    /\ \E i \in Slots :
          StateUpdates(syncState(Fresh, SlotDirtyBits(
              i, {"DIRTY_ATTRIB_POINTER"}, {})).c) # <<>>

(* C26. updateAttribPointer on an attribute whose binding, at the attribute's
   own slot, has no buffer issues no call and leaves the vertex array as it
   was but for the applied binding's buffer, which is none afterwards; and
   whenever the applied buffer is none and the binding has a buffer, the
   pointer update is not skipped: it binds the buffer and issues the
   pointer-set call, also when stride and offset are the cached ones. *)
C26_NullBufferNeverSkipsLater ==
    \A i \in Slots :
       \A r \in {updateAttribPointer(Fresh, i)} :
          /\ mState.bindings[i].buffer = NoBuffer =>
                /\ r.c = <<>>
                /\ r.v = [vao EXCEPT !.mAppliedBindings[i].buffer = NoBuffer]
          /\ (mState.bindings[i].buffer # NoBuffer
               /\ vao.mAppliedBindings[i].buffer = NoBuffer) =>
                /\ PointerCallsOf(r.c, i) # {}
                /\ r.v.mAppliedBindings[i].buffer = mState.bindings[i].buffer

(* a pointer sync was not skipped although the binding's stride and offset
   were the cached ones: only the buffer had been none *)
C26_Witness ==
    /\ op.name = "syncState" /\ op.singleBit
    /\ \E i \in Slots :
          /\ PointerCallsOf(calls, i) # {}
          /\ \A k \in PointerCallsOf(calls, i) :
                /\ calls[k].stride = VertexArrayGL.mAppliedBindings[i].stride
                /\ calls[k].pointer = VertexArrayGL.mAppliedBindings[i].offset
                /\ calls[k].format = VertexArrayGL.mAppliedAttributes[i].format
          /\ vao.mAppliedBindings[i].buffer # NoBuffer
    /\ changes = 1

(* C27. With the instanced-offset workaround feature disabled no attribute
   enters ForcedStreaming: over every sequence of syncs and draws the
   forced-streaming mask is empty, every recorded offset is 0 and no draw
   invokes streamAttributes with the extra-offset flag. *)
C27_NoForcedStreamingWithoutFeature ==
    ~context.shiftInstancedArrayDataWithExtraOffset =>
       /\ vao.mForcedStreamingAttributesForDrawArraysInstancedMask = {}
       /\ \A i \in Slots : vao.mForcedStreamingAttributesFirstOffsets[i] = 0
       /\ IsDraw =>
             \A n \in 1 .. Len(op.streamAttributesCalls) :
                ~op.streamAttributesCalls[n]
                    .applyExtraOffsetWorkaroundForInstancedAttributes

(* an instanced draw with first > 0 of an instanced, program-active attribute
   on a device without the feature, which streamed the client attribute *)
C27_Witness ==
    /\ ~context.shiftInstancedArrayDataWithExtraOffset
    /\ op.name = "syncClientSideData"
    /\ op.indexRange.start > 0 /\ op.instanceCount > 0
    /\ CandidateAttributes(vao) # {}
    /\ Len(op.streamAttributesCalls) = 1
    /\ op.streamed # {}

(* C28. At the end of every draw without indices with the workaround enabled,
   first > 0 and instanceCount > 0, every candidate (instanced and
   program-active) whose snapshot binding has a buffer has its device pointer
   on the streaming buffer: its applied binding's buffer is none. *)
C28_CandidatesPointAtStreamingBuffer ==
    (/\ op.name = "syncClientSideData" /\ op.result = "Continue"
     /\ context.shiftInstancedArrayDataWithExtraOffset
     /\ op.indexRange.start > 0 /\ op.instanceCount > 0) =>
       \A i \in CandidateAttributes(vao) :
          mState.bindings[i].buffer # NoBuffer =>
             vao.mAppliedBindings[i].buffer = NoBuffer

\* where the data streamed for attribute a begins in the streaming buffer,
\* by its applied pointer: the 0-index vertex plus `first` vertices
StreamedDataStart(v, a, first) ==
    v.mAppliedBindings[a].offset + first * v.mAppliedBindings[a].stride

(* C29. Whenever a workaround draw leaves an attribute in ForcedStreaming
   without re-streaming it, the region of the vertex streaming buffer its
   applied pointer references still holds the data streamed for it: the draw
   neither reallocates the streaming buffer nor copies other data over the
   beginning of that region. *)
C29_ForcedDataStaysInStreamingBuffer ==
    [][(IsWorkaroundDraw /\ op'.result = "Continue") =>
          \A a \in vao'.mForcedStreamingAttributesForDrawArraysInstancedMask :
             (a \notin op'.streamed /\ vao'.mAppliedBindings[a].buffer = NoBuffer) =>
                /\ Reallocations(calls') = {}
                /\ \A k \in Copies(calls') :
                      \A start \in {StreamedDataStart(vao', a, op'.indexRange.start)} :
                         ~(calls'[k].dst <= start
                           /\ start < calls'[k].dst + calls'[k].size)]_vars

(* C30. Every attribute the recovery routine processes has a snapshot binding
   with a buffer at that moment, over every sequence of draws, view-count
   changes and program-active mask changes; in particular a client-memory
   instanced attribute that was forced into streaming is never handed to the
   recovery with a null buffer. *)
C30_RecoveryOnlyOfBufferBacked ==
    IsDraw =>
       \A n \in 1 .. Len(op.recovered) : op.recovered[n].buffer # NoBuffer

\* every attribute with a recorded forced offset is in the forced-streaming mask
RecordedOffsetsAreOfForced(v) ==
    \A a \in Slots :
       v.mForcedStreamingAttributesFirstOffsets[a] # 0 =>
          a \in v.mForcedStreamingAttributesForDrawArraysInstancedMask

(* C31. At the end of every operation an attribute with a non-zero recorded
   forced offset is in the forced-streaming mask; and every attribute a
   workaround draw recovers was in the forced-streaming mask before the draw
   and is not a candidate (instanced and program-active) of the draw. *)
C31_RecordedOffsetImpliesForced ==
    [][/\ RecordedOffsetsAreOfForced(vao')
       /\ IsWorkaroundDraw =>
             \A n \in 1 .. Len(op'.recovered) :
                /\ op'.recovered[n].index
                      \in vao.mForcedStreamingAttributesForDrawArraysInstancedMask
                /\ op'.recovered[n].index \notin CandidateAttributes(vao)]_vars

(* a workaround draw has recovered an attribute while another one, forced
   earlier at the same first, is still a candidate *)
C31_Witness ==
    /\ op.name = "syncClientSideData" /\ op.result = "Continue"
    /\ context.shiftInstancedArrayDataWithExtraOffset /\ op.indexRange.start > 0
    /\ Len(op.recovered) = 1
    /\ CandidateAttributes(vao) # {}
    /\ CandidateAttributes(vao) \cap op.streamed = {}

(* C32. A workaround draw that recovers a non-empty set of attributes leaves
   the recorded forced offset of every slot at 0, those of attributes that
   stay in ForcedStreaming and of attributes forced in the same draw included;
   and a workaround draw streams every candidate it finds with recorded
   offset 0, so each of those is streamed again by the next workaround draw,
   whatever its first. *)
C32_RecoveryResetsEveryOffset ==
    [][(IsWorkaroundDraw /\ op'.result # "Crash") =>
          /\ op'.recovered # <<>> =>
                \A i \in Slots : vao'.mForcedStreamingAttributesFirstOffsets[i] = 0
          /\ \A a \in CandidateAttributes(vao) :
                vao.mForcedStreamingAttributesFirstOffsets[a] = 0 =>
                   a \in op'.streamed]_vars

(* a workaround draw has recovered an attribute and forced and streamed
   another one, whose recorded offset is 0 again at the end of the draw *)
C32_Witness ==
    /\ op.name = "syncClientSideData" /\ op.result = "Continue"
    /\ context.shiftInstancedArrayDataWithExtraOffset /\ op.indexRange.start > 0
    /\ op.recovered # <<>>
    /\ \E a \in vao.mForcedStreamingAttributesForDrawArraysInstancedMask
                    \cap op.streamed :
          /\ mState.bindings[a].buffer # NoBuffer
          /\ vao.mForcedStreamingAttributesFirstOffsets[a] = 0

----------------------------------------------------------------------------
(* SpecIndexedWorkaround: draws with and without indices of a synced vertex
   array with an instanced buffer attribute and a client-memory attribute, on
   a device with the instanced-offset workaround. *)

IndexedWorkaroundSetups ==
    {<<InstancedBufferAndClientAttribute, Device(TRUE, TRUE, <<>>, FALSE, FALSE)>>}

InitIndexedWorkaround ==
    /\ \E setup \in IndexedWorkaroundSetups : mState = setup[1] /\ context = setup[2]
    /\ \E r \in {FirstSync} :
          vao = r.v /\ device = DeviceAfter(DefaultDevice, r.c)
    /\ calls = <<>>
    /\ op = [name |-> "VertexArrayGL"]
    /\ changes = 0
    /\ maxRequired = 0

NextIndexedWorkaround ==
    \/ ApplyActiveAttribLocationsMask
    \/ DrawArrays
    \/ DrawElements

SpecIndexedWorkaround == InitIndexedWorkaround /\ [][NextIndexedWorkaround]_vars

(* C33. The instanced-offset workaround path is taken only by draws without
   indices: a draw with indices leaves the forced-streaming mask and the
   recorded offsets as they were, recovers nothing and never invokes
   streamAttributes with the extra-offset flag, whatever the feature and the
   parameters of the draw. *)
C33_IndexedDrawsLeaveForcedStreaming ==
    [][op'.name = "syncDrawState" =>
          /\ vao'.mForcedStreamingAttributesForDrawArraysInstancedMask
                = vao.mForcedStreamingAttributesForDrawArraysInstancedMask
          /\ vao'.mForcedStreamingAttributesFirstOffsets
                = vao.mForcedStreamingAttributesFirstOffsets
          /\ op'.recovered = <<>>
          /\ \A n \in 1 .. Len(op'.streamAttributesCalls) :
                ~op'.streamAttributesCalls[n]
                    .applyExtraOffsetWorkaroundForInstancedAttributes]_vars

(* an instanced draw with indices whose range starts above 0, with the feature
   enabled, an attribute in ForcedStreaming and a client attribute streamed *)
C33_Witness ==
    /\ op.name = "syncDrawState" /\ op.result = "Continue"
    /\ context.shiftInstancedArrayDataWithExtraOffset
    /\ op.instanceCount > 0 /\ op.indexRange.start > 0
    /\ vao.mForcedStreamingAttributesForDrawArraysInstancedMask # {}
    /\ Len(op.streamAttributesCalls) = 1

----------------------------------------------------------------------------
(* Claims about the error return of streamAttributes, checked under SpecRetry *)

(* C34. When a draw ends with the out-of-memory error of streamAttributes
   nothing is rolled back: the applied attribute and binding of every streamed
   attribute record the streaming binding (its own slot, relative offset 0, no
   buffer, the format of the snapshot), every fill cycle has issued the pointer
   call of every streamed attribute, and the streaming buffer keeps the
   capacity it was grown to. *)
C34_ErrorLeavesEffects ==
    (IsDraw /\ op.result = "Stop" /\ op.glError = "GL_OUT_OF_MEMORY") =>
        /\ \A idx \in op.streamed :
              /\ vao.mAppliedAttributes[idx].bindingIndex = idx
              /\ vao.mAppliedAttributes[idx].relativeOffset = 0
              /\ vao.mAppliedAttributes[idx].format = mState.attribs[idx].format
              /\ vao.mAppliedBindings[idx].buffer = NoBuffer
              /\ vao.mAppliedBindings[idx].stride =
                     ComputeVertexAttributeTypeSize(mState.attribs[idx])
              /\ Cardinality(PointerCallsOf(calls, idx)) = Cardinality(FillCycles(calls))
        /\ Cardinality(FillCycles(calls)) = op.cycles
        /\ vao.mStreamingArrayBuffer # 0
        /\ vao.mStreamingArrayBufferSize = Max(op.capacityBefore, op.required)

(* a draw that grew the streaming buffer, ran more than one fill cycle and
   ended with the out-of-memory error *)
C34_Witness ==
    /\ IsDraw /\ op.streamed # {}
    /\ op.result = "Stop" /\ op.glError = "GL_OUT_OF_MEMORY"
    /\ op.cycles > 1
    /\ op.required > op.capacityBefore
    /\ vao.mStreamingArrayBufferSize = op.required

----------------------------------------------------------------------------
(* SpecEnabled: the enabled flags.  The vertex array as constructed, over the
   default snapshot or over one the application has already set up with
   enabled attributes; the application enables and disables attribute arrays
   and changes the program, and the state manager syncs. *)

EnabledSnapshots == {DefaultVertexArrayState, InstancedBufferAndClientAttribute}

InitEnabled ==
    /\ mState \in EnabledSnapshots
    /\ vao = VertexArrayGL
    /\ device = DefaultDevice
    /\ \E vertexAttribBinding \in BOOLEAN :
          context = Device(vertexAttribBinding, FALSE, <<>>, FALSE, FALSE)
    /\ calls = <<>>
    /\ op = [name |-> "VertexArrayGL"]
    /\ changes = 0
    /\ maxRequired = 0

NextEnabled ==
    \/ ChangeEnabled
    \/ SyncState
    \/ ApplyActiveAttribLocationsMask

SpecEnabled == InitEnabled /\ [][NextEnabled]_vars

\* the enable and disable calls of a call log
EnableCalls(c) ==
    {k \in 1 .. Len(c) :
        c[k].fn \in {"enableVertexAttribArray", "disableVertexAttribArray"}}

(* C35. In every state an attribute enabled in the applied state is in the
   program-active mask.  Every step that changes an applied enabled flag sets
   it to (snapshot enabled AND program-active).  applyActiveAttribLocationsMask
   re-evaluates every attribute whose mask bit changed and no other one: the
   flags of the others stay, every device call it issues is an enable or
   disable of an attribute whose bit changed, and with the mask it already
   has it issues no call and changes nothing. *)
C35_AppliedEnabledIsActive ==
    /\ [](\A i \in Slots :
             vao.mAppliedAttributes[i].enabled =>
                 i \in vao.mProgramActiveAttribLocationsMask)
    /\ [][/\ \A i \in Slots :
               vao'.mAppliedAttributes[i].enabled # vao.mAppliedAttributes[i].enabled =>
                   (vao'.mAppliedAttributes[i].enabled <=>
                        (mState'.attribs[i].enabled
                         /\ i \in vao'.mProgramActiveAttribLocationsMask))
          /\ op'.name = "applyActiveAttribLocationsMask" =>
                LET updateMask ==
                        (vao.mProgramActiveAttribLocationsMask \ op'.activeMask)
                        \cup (op'.activeMask \ vao.mProgramActiveAttribLocationsMask)
                IN  /\ vao'.mProgramActiveAttribLocationsMask = op'.activeMask
                    /\ \A i \in Slots :
                          IF i \in updateMask
                          THEN vao'.mAppliedAttributes[i].enabled <=>
                                   (mState.attribs[i].enabled /\ i \in op'.activeMask)
                          ELSE vao'.mAppliedAttributes[i] = vao.mAppliedAttributes[i]
                    /\ EnableCalls(calls') = 1 .. Len(calls')
                    /\ \A k \in EnableCalls(calls') : calls'[k].index \in updateMask
                    /\ updateMask = {} => calls' = <<>> /\ vao' = vao]_vars

(* a program change has just taken an enabled attribute out of the mask and
   disabled it on the device, and left the other attribute enabled *)
C35_Witness ==
    /\ op.name = "applyActiveAttribLocationsMask"
    /\ \E i \in Slots :
          /\ mState.attribs[i].enabled /\ i \notin op.activeMask
          /\ ~vao.mAppliedAttributes[i].enabled
          /\ \E k \in 1 .. Len(calls) :
                calls[k].fn = "disableVertexAttribArray" /\ calls[k].index = i
    /\ \E j \in Slots : vao.mAppliedAttributes[j].enabled

----------------------------------------------------------------------------
(* SpecElementBuffer: the element array buffer.  The vertex array, synced,
   with or without an element array buffer; the application binds other
   element array buffers and changes the program, and draws with indices,
   from the bound buffer or from client memory.  The front end marks the
   element array buffer dirty at every change, and the state manager syncs it
   before anything else is done with the vertex array. *)

ElementBufferSetups ==
    {<<IndexBufferBufferAndClient, Device(TRUE, FALSE, <<>>, FALSE, FALSE)>>,
     <<ClientIndicesBufferAndClient, Device(TRUE, FALSE, <<>>, FALSE, FALSE)>>}

InitElementBuffer ==
    /\ \E setup \in ElementBufferSetups : mState = setup[1] /\ context = setup[2]
    /\ \E r \in {FirstSync} :
          vao = r.v /\ device = DeviceAfter(DefaultDevice, r.c)
    /\ calls = <<>>
    /\ op = [name |-> "VertexArrayGL"]
    /\ changes = 0
    /\ maxRequired = 0

\* the element array buffer has changed and its dirty bit is not yet synced
ElementArrayBufferDirty == op.name = "changeElementArrayBuffer"

NextElementBuffer ==
    \/ ChangeElementArrayBuffer
    \/ /\ SyncState
       /\ ElementArrayBufferDirty =>
              \E dirty \in SyncedDirtyBits :
                 dirty.elementArrayBuffer /\ vao' = syncState(Fresh, dirty).v
    \/ ~ElementArrayBufferDirty /\ ApplyActiveAttribLocationsMask
    \/ ~ElementArrayBufferDirty /\ DrawElements

SpecElementBuffer == InitElementBuffer /\ [][NextElementBuffer]_vars

(* C36. When every change of the snapshot's element array buffer is followed
   by a syncState with the element array buffer dirty bit before the next
   draw, the assertion of syncIndexData holds in every draw with indices, and
   once the change is synced a snapshot element array buffer other than none
   is the applied one, also after draws that read their indices from client
   memory and reset the applied element array buffer to none. *)
C36_ElementArrayBufferAssertion ==
    /\ (op.name = "syncDrawState" /\ op.type # "InvalidEnum") => op.asserts = {}
    /\ (~ElementArrayBufferDirty /\ mState.elementArrayBuffer # NoBuffer) =>
           vao.mAppliedElementArrayBuffer = mState.elementArrayBuffer

(* a draw has read its indices from the element array buffer that was bound
   and synced after a draw with client-memory indices *)
C36_Witness ==
    /\ op.name = "syncDrawState" /\ op.type # "InvalidEnum"
    /\ mState.elementArrayBuffer # NoBuffer
    /\ op.outIndices = op.indices
    /\ vao.mStreamingElementArrayBuffer # 0
    /\ changes > 0

----------------------------------------------------------------------------
(* SpecAttribBinding: attributes and bindings set apart.  On a device with
   vertex attrib binding and the workaround the application has set up two
   buffer-backed attributes, one per instance, and then
     - left them as they are, or
     - pointed attribute 0 at binding 1 (glVertexAttribBinding), which leaves
       binding 0 with its divisor, or
     - given attribute 0 a relative offset (glVertexAttribFormat);
   the vertex array is synced, the program changes and draws follow. *)

InstancedBufferAndBuffer ==
    Snapshot(<<BufferInstancedFloat4(0), BufferFloat4(1)>>, NoBuffer)

AttribBindingSetups ==
    {<<InstancedBufferAndBuffer, Device(TRUE, TRUE, <<>>, FALSE, FALSE)>>,
     <<[InstancedBufferAndBuffer EXCEPT !.attribs[0].bindingIndex = 1],
       Device(TRUE, TRUE, <<>>, FALSE, FALSE)>>,
     <<[InstancedBufferAndBuffer EXCEPT !.attribs[0].relativeOffset = 4],
       Device(TRUE, TRUE, <<>>, FALSE, FALSE)>>}

InitAttribBinding ==
    /\ \E setup \in AttribBindingSetups : mState = setup[1] /\ context = setup[2]
    /\ \E r \in {FirstSync} :
          vao = r.v /\ device = DeviceAfter(DefaultDevice, r.c)
    /\ calls = <<>>
    /\ op = [name |-> "VertexArrayGL"]
    /\ changes = 0
    /\ maxRequired = 0

NextAttribBinding ==
    \/ ApplyActiveAttribLocationsMask
    \/ DrawArrays

SpecAttribBinding == InitAttribBinding /\ [][NextAttribBinding]_vars

(* C37. The assertion IsVertexAttribPointerSupported holds whenever a draw
   evaluates it, in streamAttributes and in the recovery: every attribute
   they go through has its own slot as binding index and relative offset 0,
   the attributes the workaround selects from the instanced mask and the
   program-active mask included. *)
C37_PointerSupportedAssertion ==
    IsDraw => "IsVertexAttribPointerSupported(idx, attrib)" \notin op.asserts

----------------------------------------------------------------------------
(* SpecDestroy: the end of the vertex array.  The vertex array, synced, over
   a buffer-backed and a client-memory attribute, with or without an element
   array buffer; the view count and the program change, draws with indices
   stream vertex data and client-memory indices, and the vertex array is
   destroyed. *)

DestroySetups ==
    {<<IndexBufferBufferAndClient, Device(TRUE, FALSE, <<>>, FALSE, FALSE)>>,
     <<ClientIndicesBufferAndClient, Device(TRUE, FALSE, <<>>, FALSE, FALSE)>>}

InitDestroy ==
    /\ \E setup \in DestroySetups : mState = setup[1] /\ context = setup[2]
    /\ \E r \in {FirstSync} :
          vao = r.v /\ device = DeviceAfter(DefaultDevice, r.c)
    /\ calls = <<>>
    /\ op = [name |-> "VertexArrayGL"]
    /\ changes = 0
    /\ maxRequired = 0

NextDestroy ==
    \/ ApplyNumViewsToDivisor
    \/ ApplyActiveAttribLocationsMask
    \/ DrawElements
    \/ Destroy

SpecDestroy == InitDestroy /\ [][NextDestroy]_vars

(* C38. After destroy the vertex array id, the two streaming buffer handles
   and the two streaming capacities are 0, the applied view count is 1, the
   applied element array buffer is none and no applied binding has a buffer.
   In every state a streaming buffer handle of 0 has capacity 0. *)
C38_DestroyedState ==
    /\ op.name = "destroy" =>
           /\ vao.mVertexArrayID = 0
           /\ vao.mStreamingArrayBuffer = 0
           /\ vao.mStreamingElementArrayBuffer = 0
           /\ vao.mStreamingArrayBufferSize = 0
           /\ vao.mStreamingElementArrayBufferSize = 0
           /\ vao.mAppliedNumViews = 1
           /\ vao.mAppliedElementArrayBuffer = NoBuffer
           /\ \A i \in Slots : vao.mAppliedBindings[i].buffer = NoBuffer
    /\ vao.mStreamingArrayBuffer = 0 => vao.mStreamingArrayBufferSize = 0
    /\ vao.mStreamingElementArrayBuffer = 0 =>
           vao.mStreamingElementArrayBufferSize = 0

(* a vertex array that had both streaming buffers and an element array
   buffer of its own has been destroyed *)
C38_Witness ==
    /\ op.name = "destroy"
    /\ \A k \in 2 .. 3 : calls[k].fn = "stateManager.deleteBuffer" /\ calls[k].buffer # 0
    /\ mState.elementArrayBuffer = NoBuffer
    /\ \E i \in Slots : mState.bindings[i].buffer # NoBuffer

----------------------------------------------------------------------------
(* C39. The start offset of every pointer call of a draw, which for a
   streamed attribute is the running buffer offset minus first index x
   element size, is not negative, whatever the start of the index range, the
   element sizes and the divisors, with and without the workaround. *)
C39_StartOffsetNotNegative ==
    IsDraw =>
        \A k \in 1 .. Len(calls) :
            calls[k].fn \in PointerFns => calls[k].pointer >= 0

(* a draw with the workaround and first > 0 has streamed two attributes of
   different element sizes, the first of them at start offset 0 *)
C39_Witness ==
    /\ IsDraw /\ op.result = "Continue"
    /\ op.indexRange.start > 0
    /\ context.shiftInstancedArrayDataWithExtraOffset
    /\ op.streamed = Slots
    /\ \E i \in Slots :
          /\ ComputeVertexAttributeTypeSize(mState.attribs[i])
                 < ComputeVertexAttributeTypeSize(mState.attribs[1 - i])
          /\ mState.bindings[i].divisor > 0
    /\ \E k \in 1 .. Len(calls) : calls[k].fn \in PointerFns /\ calls[k].pointer = 0
    /\ \E k \in 1 .. Len(calls) : calls[k].fn \in PointerFns /\ calls[k].pointer > 0
====
